---- MODULE Spec2Model ----
(***************************************************************************)
(* Model of buildantic's OpenAPI operation descriptor:                     *)
(*   descriptor/openapi/__init__.py  (OperationDescriptor)                 *)
(*   descriptor/openapi/utils.py     (path / query encoders, formatters)   *)
(*   descriptor/openapi/types.py     (Operation, RequestModel)             *)
(*   validator.py                    (SchemaValidator)                     *)
(*                                                                         *)
(* Representation.                                                         *)
(*   - A Python str is a sequence of tokens; a token is either one         *)
(*     punctuation character or a run of unreserved characters.            *)
(*   - A Python dict whose iteration order the code depends on is a        *)
(*     sequence of <<key, value>> pairs with distinct keys (insertion      *)
(*     order).  A JSON-schema dict with a fixed vocabulary of keys is a    *)
(*     record; an absent key is an absent field.                           *)
(*   - Every Python value, None included, is a record (see below).         *)
(***************************************************************************)
EXTENDS Integers, Sequences, FiniteSets, TLC

VARIABLES
    op,               \* self.ref: the Operation the descriptor wraps
    self_key_to_loc,  \* self.__key_to_loc
    self_schema,      \* self.__schema
    self_validator,   \* self.__validator (None or the schema it was built from)
    analyze_calls,    \* history: number of completed _analyze_metas runs
    first_schema,     \* history: value returned by the first schema access
    ret,              \* outcome of the last completed public call
    pc,               \* per thread: position inside the schema property
    local,            \* per thread: result of its own _analyze_metas run
    call              \* argument/result of the last pure-function application

vars == <<op, self_key_to_loc, self_schema, self_validator, analyze_calls,
          first_schema, ret, pc, local, call>>

----------------------------------------------------------------------------
(* Bounds *)

MaxKeys == 2        \* properties declared by one location
MaxObjKeys == 2     \* items of one input object
MaxThreads == 2     \* threads racing on one descriptor
MaxItems == 2       \* elements of one array or object value
MaxParams == 2      \* parameters of one format_query call
MaxProps == 4       \* properties declared by one Operation, all locations

----------------------------------------------------------------------------
(* Python values *)

\* A Python value is a record [t, s, items, pairs]:
\*   t      "none" | "bool" | "int" | "str" | "list" | "dict"
\*   s      str(v) of a scalar, as tokens
\*   items  the elements of a list
\*   pairs  the items of a dict, in insertion order
None == [t |-> "none", s |-> <<"None">>, items |-> <<>>, pairs |-> <<>>]
PyStr(toks) == [t |-> "str", s |-> toks, items |-> <<>>, pairs |-> <<>>]
PyInt(tok) == [t |-> "int", s |-> <<tok>>, items |-> <<>>, pairs |-> <<>>]
PyList(xs) == [t |-> "list", s |-> <<>>, items |-> xs, pairs |-> <<>>]
PyDict(ps) == [t |-> "dict", s |-> <<>>, items |-> <<>>, pairs |-> ps]

\* truth value of a Python value
Truthy(v) ==
    CASE v.t = "none" -> FALSE
      [] v.t = "bool" -> v.s = <<"True">>
      [] v.t = "int" -> v.s # <<"0">>
      [] v.t = "str" -> v.s # <<>>
      [] v.t = "list" -> v.items # <<>>
      [] v.t = "dict" -> v.pairs # <<>>

Range(s) == {s[i] : i \in 1..Len(s)}

\* dict helpers (ordered sequences of <<key, value>> pairs)
DictKeys(d) == [i \in 1..Len(d) |-> d[i][1]]
KeySet(d) == {d[i][1] : i \in 1..Len(d)}
DictHas(d, k) == k \in KeySet(d)
DictGet(d, k) == d[CHOOSE i \in 1..Len(d) : d[i][1] = k][2]
DictSet(d, k, v) ==
    IF DictHas(d, k)
    THEN [i \in 1..Len(d) |-> IF d[i][1] = k THEN <<k, v>> ELSE d[i]]
    ELSE Append(d, <<k, v>>)
DictDel(d, k) == SelectSeq(d, LAMBDA p : p[1] # k)

\* faulty variant: the argument replaces the dict instead of updating it
DictReplace(d, e) == e
\* faulty variant: the argument is dropped
DictKeep(d, e) == d

RECURSIVE DictUpdate(_, _)
DictUpdate(d, e) ==
    IF e = <<>> THEN d
    ELSE DictUpdate(DictSet(d, Head(e)[1], Head(e)[2]), Tail(e))

----------------------------------------------------------------------------
(* OperationDescriptor.__init__: the reserved keys, in composition order *)

\* faulty variant: the body is composed first
LocOrderBodyFirst == <<"requestBody", "requestCookie", "requestHeader",
                       "requestQuery", "requestPath">>
LocOrder == <<"requestPath", "requestQuery", "requestHeader",
              "requestCookie", "requestBody">>
ReservedKeys == Range(LocOrder)

metas(o) ==
    [loc \in ReservedKeys |->
        CASE loc = "requestPath" -> o.path_meta
          [] loc = "requestQuery" -> o.query_meta
          [] loc = "requestHeader" -> o.header_meta
          [] loc = "requestCookie" -> o.cookie_meta
          [] loc = "requestBody" -> o.body_meta]

\* truth value of `meta and meta.schema_`
MetaPresent(meta) == meta # None /\ DOMAIN meta.schema_ # {}

\* meta.schema_.get("properties", {}) and meta.schema_.get("required", [])
SchemaProps(s) == IF "properties" \in DOMAIN s THEN s.properties ELSE <<>>
SchemaRequired(s) == IF "required" \in DOMAIN s THEN s.required ELSE <<>>

----------------------------------------------------------------------------
(* OperationDescriptor._analyze_metas                                      *)
(* The builder state st is the four locals of the function.                *)

EmptyBuilder ==
    [key_to_loc |-> <<>>, properties |-> <<>>, required |-> <<>>,
     nested_locs |-> {}]

\* the non-body branch of add_properties: the loop over props.items()
RECURSIVE FlattenKeys(_, _, _)
FlattenKeys(st, props, loc) ==
    IF props = <<>> THEN [ok |-> TRUE, st |-> st]
    ELSE LET key == Head(props)[1]
             value == Head(props)[2]
         IN IF key \in ReservedKeys
            THEN [ok |-> FALSE,
                  st |-> [st EXCEPT !.nested_locs = @ \cup {loc}]]
            ELSE IF DictHas(st.properties, key)
            THEN IF DictGet(st.key_to_loc, key) # loc
                 THEN [ok |-> FALSE,
                       st |-> [st EXCEPT !.nested_locs = @ \cup {loc}]]
                 ELSE FlattenKeys(st, Tail(props), loc)
            ELSE FlattenKeys(
                    [st EXCEPT !.properties = DictSet(@, key, value),
                               !.key_to_loc = DictSet(@, key, loc)],
                    Tail(props), loc)

\* faulty variant: the body is flattened like any other location
add_properties_flat(st, props, loc) == FlattenKeys(st, props, loc)
add_properties(st, props, loc) ==
    IF loc = "requestBody"
    THEN [ok |-> TRUE,
          st |-> [st EXCEPT
                    !.properties =
                        DictSet(@, loc, [type |-> "object", properties |-> props]),
                    !.nested_locs = @ \cup {loc}]]
    ELSE FlattenKeys(st, props, loc)

\* faulty variant: a nested location also adds its fragment's required list
ComposeLocRequiredAlways(st, ms, loc) ==
    LET meta == ms[loc] IN
    IF ~MetaPresent(meta) THEN st
    ELSE LET r == add_properties(st, SchemaProps(meta.schema_), loc) IN
         IF ~r.ok
         THEN [r.st EXCEPT !.properties = DictSet(@, loc, meta.schema_),
                           !.required = Append(@, loc)
                                            \o SchemaRequired(meta.schema_)]
         ELSE IF loc = "requestBody"
         THEN [r.st EXCEPT !.required = Append(@, loc)]
         ELSE [r.st EXCEPT !.required = @ \o SchemaRequired(meta.schema_)]
\* one iteration of the first loop (lines 83-93)
ComposeLoc(st, ms, loc) ==
    LET meta == ms[loc] IN
    IF ~MetaPresent(meta) THEN st
    ELSE LET r == add_properties(st, SchemaProps(meta.schema_), loc) IN
         IF ~r.ok
         THEN [r.st EXCEPT !.properties = DictSet(@, loc, meta.schema_),
                           !.required = Append(@, loc)]
         ELSE IF loc = "requestBody"
         THEN [r.st EXCEPT !.required = Append(@, loc)]
         ELSE [r.st EXCEPT !.required = @ \o SchemaRequired(meta.schema_)]

\* the builder after the first n locations of the first loop
RECURSIVE FirstPass(_, _)
FirstPass(ms, n) ==
    IF n = 0 THEN EmptyBuilder
    ELSE ComposeLoc(FirstPass(ms, n - 1), ms, LocOrder[n])

\* faulty variant: the keys leave the properties but stay in the map
RemoveKeysKeepMap(st, ks) ==
    [st EXCEPT !.properties = SelectSeq(@, LAMBDA p : p[1] \notin Range(ks))]

\* keys_to_remove and the two del statements (lines 103-106)
RECURSIVE RemoveKeys(_, _)
RemoveKeys(st, ks) ==
    IF ks = <<>> THEN st
    ELSE RemoveKeys([st EXCEPT !.properties = DictDel(@, Head(ks)),
                               !.key_to_loc = DictDel(@, Head(ks))],
                    Tail(ks))

\* faulty variant: a nested location keeps the keys it had flattened
KeysOwnedByNone(st, loc) == <<>>
KeysOwnedBy(st, loc) ==
    DictKeys(SelectSeq(st.key_to_loc, LAMBDA p : p[2] = loc))

\* one iteration of the second loop (lines 96-106)
RetractLoc(st, ms, loc) ==
    LET meta == ms[loc] IN
    IF loc = "requestBody" \/ meta = None THEN st
    ELSE LET st1 == IF ~DictHas(st.properties, loc)
                    THEN [st EXCEPT !.properties = DictSet(@, loc, meta.schema_),
                                    !.required = Append(@, loc)]
                    ELSE st
         IN RemoveKeys(st1, KeysOwnedBy(st1, loc))

\* the second loop; ord is the order in which the set nested_locs is iterated
RECURSIVE SecondPass(_, _, _)
SecondPass(st, ms, ord) ==
    IF ord = <<>> THEN st
    ELSE SecondPass(RetractLoc(st, ms, Head(ord)), ms, Tail(ord))

\* every iteration order of a Python set
SetOrders(S) ==
    {s \in [1..Cardinality(S) -> S] :
        \A i, j \in 1..Cardinality(S) : i # j => s[i] # s[j]}

\* _analyze_metas, given the iteration order of nested_locs
analyze_metas(o, ord) == SecondPass(FirstPass(metas(o), 5), metas(o), ord)

NestedOrders(o) == SetOrders(FirstPass(metas(o), 5).nested_locs)

\* faulty variant: requestBody is required only when body_required is set
BuildSchemaBodyOptional(o, st) ==
    LET req == IF o.body_required THEN st.required
               ELSE SelectSeq(st.required, LAMBDA k : k # "requestBody")
        base == [type |-> "object", properties |-> st.properties]
        withDesc == IF Truthy(o.description)
                    THEN base @@ [description |-> o.description] ELSE base
    IN IF req # <<>> THEN withDesc @@ [required |-> req] ELSE withDesc
\* the dict built by the schema property (lines 49-53)
BuildSchema(o, st) ==
    LET base == [type |-> "object", properties |-> st.properties]
        withDesc == IF Truthy(o.description)
                    THEN base @@ [description |-> o.description] ELSE base
    IN IF st.required # <<>>
       THEN withDesc @@ [required |-> st.required] ELSE withDesc

----------------------------------------------------------------------------
(* descriptor/openapi/utils.py                                             *)

Ok(toks) == [ok |-> TRUE, val |-> toks, err |-> "none"]
Raise(e) == [ok |-> FALSE, val |-> <<>>, err |-> e]

\* sep.join(parts) for a sequence of token sequences
RECURSIVE Join(_, _)
Join(sep, parts) ==
    IF parts = <<>> THEN <<>>
    ELSE IF Len(parts) = 1 THEN parts[1]
    ELSE parts[1] \o sep \o Join(sep, Tail(parts))

\* str(v): the scalar's text, or the repr of a list / dict
RECURSIVE py_repr(_)
py_str(v) ==
    IF v.t \in {"list", "dict"} THEN py_repr(v) ELSE v.s
py_repr(v) ==
    CASE v.t = "str" -> <<"'">> \o v.s \o <<"'">>
      [] v.t = "list" ->
            <<"[">> \o Join(<<",", " ">>,
                            [i \in 1..Len(v.items) |-> py_repr(v.items[i])])
                    \o <<"]">>
      [] v.t = "dict" ->
            <<"{">> \o Join(<<",", " ">>,
                            [i \in 1..Len(v.pairs) |->
                                <<"'", v.pairs[i][1], "'", ":", " ">>
                                    \o py_repr(v.pairs[i][2])])
                    \o <<"}">>
      [] OTHER -> v.s

\* pydantic_core.to_json(v).decode("utf-8"): compact JSON
RECURSIVE to_json(_)
to_json(v) ==
    CASE v.t = "str" -> <<"\"">> \o v.s \o <<"\"">>
      [] v.t = "none" -> <<"null">>
      [] v.t = "bool" -> IF v.s = <<"True">> THEN <<"true">> ELSE <<"false">>
      [] v.t = "list" ->
            <<"[">> \o Join(<<",">>,
                            [i \in 1..Len(v.items) |-> to_json(v.items[i])])
                    \o <<"]">>
      [] v.t = "dict" ->
            <<"{">> \o Join(<<",">>,
                            [i \in 1..Len(v.pairs) |->
                                <<"\"", v.pairs[i][1], "\"", ":">>
                                    \o to_json(v.pairs[i][2])])
                    \o <<"}">>
      [] OTHER -> v.s

to_str(v) == IF v.t \in {"list", "dict"} THEN to_json(v) ELSE py_str(v)

\* `style or "simple"`, `style or "form"`
\* PathEncodingStyle
PathStyles == {"simple", "label", "matrix"}

\* faulty variant: an unrecognised style name falls back to the default
StyleOrFallback(style_arg, default) ==
    IF Truthy(style_arg)
          /\ style_arg.s[1] \in PathStyles \cup
                {"form", "spaceDelimited", "pipeDelimited", "deepObject"}
    THEN style_arg.s[1] ELSE default
StyleOr(style_arg, default) == IF Truthy(style_arg) THEN style_arg.s[1] ELSE default

\* map(to_str, arr) and the items as an f-string formats them
StrItems(arr) == [i \in 1..Len(arr) |-> to_str(arr[i])]
FormatItems(arr) == [i \in 1..Len(arr) |-> py_str(arr[i])]
\* f"{k}{kv_sep}{to_str(v)}" for k, v in obj.items()
KvItems(obj, kv_sep) ==
    [i \in 1..Len(obj) |-> <<obj[i][1], kv_sep>> \o to_str(obj[i][2])]
Prefixed(pre, parts) == [i \in 1..Len(parts) |-> pre \o parts[i]]

\* faulty variant: label joins with "," whatever explode is
ArrayEncodedLabelComma(name, strs, fmts, style, explode) ==
    CASE style = "simple" -> Ok(Join(<<",">>, strs))
      [] style = "label" -> Ok(Join(<<",">>, strs))
      [] style = "matrix" ->
            Ok(IF explode THEN Join(<<";">>, Prefixed(<<name, "=">>, fmts))
                          ELSE <<name, "=">> \o Join(<<",">>, strs))
      [] OTHER -> Raise("ValueError")

\* faulty variant: simple joins the elements with ";"
ArrayEncodedSimpleSemicolon(name, strs, fmts, style, explode) ==
    CASE style = "simple" -> Ok(Join(<<";">>, strs))
      [] style = "label" ->
            Ok(IF explode THEN Join(<<".">>, strs) ELSE Join(<<",">>, strs))
      [] style = "matrix" ->
            Ok(IF explode THEN Join(<<";">>, Prefixed(<<name, "=">>, fmts))
                          ELSE <<name, "=">> \o Join(<<",">>, strs))
      [] OTHER -> Raise("ValueError")

\* encode_array, given map(to_str, arr) and the formatted items
ArrayEncoded(name, strs, fmts, style, explode) ==
    CASE style = "simple" -> Ok(Join(<<",">>, strs))
      [] style = "label" ->
            Ok(IF explode THEN Join(<<".">>, strs) ELSE Join(<<",">>, strs))
      [] style = "matrix" ->
            Ok(IF explode THEN Join(<<";">>, Prefixed(<<name, "=">>, fmts))
                          ELSE <<name, "=">> \o Join(<<",">>, strs))
      [] OTHER -> Raise("ValueError")

encode_array(name, arr, style, explode) ==
    ArrayEncoded(name, StrItems(arr), FormatItems(arr), style, explode)

\* encode_object, given the k=v and the k,v renderings of the items
ObjectEncoded(name, eq, comma, style, explode) ==
    CASE style = "simple" ->
            Ok(IF explode THEN Join(<<",">>, eq) ELSE Join(<<",">>, comma))
      [] style = "label" ->
            Ok(IF explode THEN Join(<<".">>, eq) ELSE Join(<<",">>, comma))
      [] style = "matrix" ->
            Ok(IF explode THEN Join(<<";">>, eq)
                          ELSE <<name, "=">> \o Join(<<",">>, comma))
      [] OTHER -> Raise("ValueError")

encode_object(name, obj, style, explode) ==
    ObjectEncoded(name, KvItems(obj, "="), KvItems(obj, ","), style, explode)

\* lines 71-76: the value's encoding before the style prefix
PathEncoded(name, value, style, explode) ==
    CASE value.t = "list" -> encode_array(name, value.items, style, explode)
      [] value.t = "dict" -> encode_object(name, value.pairs, style, explode)
      [] OTHER -> Ok((IF style # "matrix" THEN <<>> ELSE <<name, "=">>)
                        \o to_str(value))

\* faulty variant: an unrecognised style leaves the encoding unprefixed
PathPrefixedLenient(style, encoded) ==
    IF ~encoded.ok THEN encoded
    ELSE CASE style = "label" -> Ok(<<".">> \o encoded.val)
           [] style = "matrix" -> Ok(<<";">> \o encoded.val)
           [] OTHER -> encoded

\* lines 78-84
PathPrefixed(style, encoded) ==
    IF ~encoded.ok THEN encoded
    ELSE CASE style = "simple" -> encoded
           [] style = "label" -> Ok(<<".">> \o encoded.val)
           [] style = "matrix" -> Ok(<<";">> \o encoded.val)
           [] OTHER -> Raise("ValueError")

\* style and explode are Python values: None, a str, a bool
encode_path_parameter(name, value, style_arg, explode_arg) ==
    PathPrefixed(StyleOr(style_arg, "simple"),
                 PathEncoded(name, value, StyleOr(style_arg, "simple"),
                             Truthy(explode_arg)))

\* urllib.parse.quote(s) with the default safe="/": one token
QuoteToken(tok) ==
    CASE tok = " " -> "%20"
      [] tok = "\"" -> "%22"
      [] tok = "#" -> "%23"
      [] tok = "&" -> "%26"
      [] tok = "'" -> "%27"
      [] tok = "+" -> "%2B"
      [] tok = "," -> "%2C"
      [] tok = ":" -> "%3A"
      [] tok = ";" -> "%3B"
      [] tok = "=" -> "%3D"
      [] tok = "?" -> "%3F"
      [] tok = "[" -> "%5B"
      [] tok = "]" -> "%5D"
      [] tok = "{" -> "%7B"
      [] tok = "|" -> "%7C"
      [] tok = "}" -> "%7D"
      [] OTHER -> tok
quote(toks) == [i \in 1..Len(toks) |-> QuoteToken(toks[i])]

QueryStyles == {"form", "spaceDelimited", "pipeDelimited", "deepObject"}

\* encode_value = lambda v: quote(str(v))
encode_value(v) == quote(py_str(v))

\* encode_value of every element of a list / every value of a dict
EncodedItems(value) ==
    CASE value.t = "list" ->
            [i \in 1..Len(value.items) |-> encode_value(value.items[i])]
      [] value.t = "dict" ->
            [i \in 1..Len(value.pairs) |-> encode_value(value.pairs[i][2])]
      [] OTHER -> <<encode_value(value)>>

\* the body of encode_query_parameter, given the encoded values
QueryEncoded(name, value, style, explode, encs) ==
    CASE style = "form" ->
            (CASE value.t = "list" ->
                    Ok(IF explode THEN Join(<<"&">>, Prefixed(<<name, "=">>, encs))
                       ELSE <<name, "=">> \o Join(<<",">>, encs))
               [] value.t = "dict" ->
                    Ok(IF explode
                       THEN Join(<<"&">>,
                                 [i \in 1..Len(encs) |->
                                     <<value.pairs[i][1], "=">> \o encs[i]])
                       ELSE <<name, "=">> \o
                            Join(<<",">>,
                                 [i \in 1..Len(encs) |->
                                     <<value.pairs[i][1], ",">> \o encs[i]]))
               [] OTHER -> Ok(<<name, "=">> \o encs[1]))
      [] style \in {"spaceDelimited", "pipeDelimited"} ->
            IF value.t # "list" THEN Raise("ValueError")
            ELSE IF explode THEN Ok(Join(<<"&">>, Prefixed(<<name, "=">>, encs)))
            ELSE Ok(<<name, "=">> \o
                    Join(IF style = "spaceDelimited" THEN <<"%20">> ELSE <<"|">>,
                         encs))
      [] style = "deepObject" ->
            IF value.t # "dict" \/ ~explode THEN Raise("ValueError")
            ELSE Ok(Join(<<"&">>,
                         [i \in 1..Len(encs) |->
                             <<name, "[">> \o quote(<<value.pairs[i][1]>>)
                                 \o <<"]", "=">> \o encs[i]]))
      [] OTHER -> Raise("ValueError")

\* faulty variant: an omitted explode counts as false
encode_query_parameter_no_explode(name, value, style_arg, explode_arg) ==
    QueryEncoded(name, value, StyleOr(style_arg, "form"), Truthy(explode_arg),
                 EncodedItems(value))

\* style and explode are Python values: None, a str, a bool
encode_query_parameter(name, value, style_arg, explode_arg) ==
    QueryEncoded(name, value, StyleOr(style_arg, "form"),
                 IF explode_arg = None THEN TRUE ELSE Truthy(explode_arg),
                 EncodedItems(value))

\* the (style, explode) pair format_path / format_query pass on for a name
EncodingOf(encodings, name) ==
    IF DictHas(encodings, name)
    THEN DictGet(encodings, name)
    ELSE [style |-> None, explode |-> None]

EncodePathWith(name, value, e) ==
    encode_path_parameter(name, value, e.style, e.explode)
EncodeQueryWith(name, value, e) ==
    encode_query_parameter(name, value, e.style, e.explode)

\* formatted_map of format_path: the first error, or the encoded dict
RECURSIVE FormattedMap(_, _, _)
FormattedMapNext(params, encodings, acc, r) ==
    IF ~r.ok THEN [ok |-> FALSE, map |-> <<>>, err |-> r.err]
    ELSE FormattedMap(Tail(params), encodings,
                      DictSet(acc, Head(params)[1], r.val))
FormattedMap(params, encodings, acc) ==
    IF params = <<>> THEN [ok |-> TRUE, map |-> acc, err |-> "none"]
    ELSE FormattedMapNext(params, encodings, acc,
            EncodePathWith(Head(params)[1], Head(params)[2],
                           EncodingOf(encodings, Head(params)[1])))

Prepend(toks, rest) == IF ~rest.ok THEN rest ELSE Ok(toks \o rest.val)

\* str.format_map over a template whose replacement fields are "{", name, "}"
RECURSIVE format_map(_, _)
format_map(path, map) ==
    IF path = <<>> THEN Ok(<<>>)
    ELSE IF Head(path) = "{"
    THEN IF ~DictHas(map, path[2]) THEN Raise("KeyError")
         ELSE Prepend(DictGet(map, path[2]),
                      format_map(SubSeq(path, 4, Len(path)), map))
    ELSE Prepend(<<Head(path)>>, format_map(Tail(path), map))

\* faulty variant: a template with a missing name is returned as it is
FormatWithLenient(path, fm) ==
    IF ~fm.ok THEN Raise(fm.err)
    ELSE IF format_map(path, fm.map).ok THEN format_map(path, fm.map)
    ELSE Ok(path)
FormatWith(path, fm) ==
    IF ~fm.ok THEN Raise(fm.err) ELSE format_map(path, fm.map)

format_path(path, params, encodings) ==
    FormatWith(path, FormattedMap(params, encodings, <<>>))

\* query_parts of format_query: the first error, or the list of fragments
RECURSIVE QueryParts(_, _, _)
QueryPartsNext(params, encodings, acc, r) ==
    IF ~r.ok THEN [ok |-> FALSE, parts |-> <<>>, err |-> r.err]
    ELSE QueryParts(Tail(params), encodings, Append(acc, r.val))
QueryParts(params, encodings, acc) ==
    IF params = <<>> THEN [ok |-> TRUE, parts |-> acc, err |-> "none"]
    ELSE QueryPartsNext(params, encodings, acc,
            EncodeQueryWith(Head(params)[1], Head(params)[2],
                            EncodingOf(encodings, Head(params)[1])))

JoinParts(qp) == IF ~qp.ok THEN Raise(qp.err) ELSE Ok(Join(<<"&">>, qp.parts))

format_query(params, encodings) == JoinParts(QueryParts(params, encodings, <<>>))

----------------------------------------------------------------------------
(* Operations (descriptor/openapi/types.py)                                *)

\* the schema of one parameter; the description records the declaring
\* location so that two locations' schemas for one name differ
ParamSchema(loc, k) == [description |-> <<loc, k>>]

PropsOf(loc, ks) == [i \in 1..Len(ks) |-> <<ks[i], ParamSchema(loc, ks[i])>>]

\* {"type": "object", "properties": {...}} with an optional "required"
Fragment(loc, ks, req) ==
    IF req = <<>>
    THEN [type |-> "object", properties |-> PropsOf(loc, ks)]
    ELSE [type |-> "object", properties |-> PropsOf(loc, ks), required |-> req]

NoPropsFragment == [type |-> "object"]
EmptyFragment == <<>>

\* InputMeta / EncodableInputMeta
Meta(loc, frag, enc) ==
    IF loc \in {"requestPath", "requestQuery"}
    THEN [schema_ |-> frag, encodings |-> enc]
    ELSE [schema_ |-> frag]

Operation(path, pm, qm, hm, cm, bm, breq) ==
    [id |-> "op", path |-> path, method |-> "get",
     description |-> PyStr(<<"Test operation">>),
     path_meta |-> pm, query_meta |-> qm, header_meta |-> hm,
     cookie_meta |-> cm, body_meta |-> bm, body_required |-> breq]

\* all sequences of distinct elements of S with 1..n elements
DistinctSeqs(S, n) ==
    UNION {{s \in [1..m -> S] : \A i, j \in 1..m : i # j => s[i] # s[j]} :
              m \in 1..n}

\* property names a location may declare in the composition model
DeclKeys == {"a", "b", "requestQuery"}

NProps(meta) == IF meta = None THEN 0 ELSE Len(SchemaProps(meta.schema_))

Min(x, y) == IF x <= y THEN x ELSE y

\* the metas a location may carry with at most n properties
ComposeMetas(loc, n) ==
    {None, Meta(loc, NoPropsFragment, <<>>), Meta(loc, EmptyFragment, <<>>)}
    \cup {Meta(loc, Fragment(loc, ks, <<>>), <<>>) :
             ks \in DistinctSeqs(DeclKeys, Min(n, MaxKeys))}

\* the Operations of the composition model: at most MaxProps properties
IsComposeOp(o) ==
    \E pm \in ComposeMetas("requestPath", MaxProps) :
    \E qm \in ComposeMetas("requestQuery", MaxProps - NProps(pm)) :
    \E hm \in ComposeMetas("requestHeader", MaxProps - NProps(pm) - NProps(qm)) :
    \E cm \in ComposeMetas("requestCookie",
                           MaxProps - NProps(pm) - NProps(qm) - NProps(hm)) :
    \E bm \in ComposeMetas("requestBody",
                           MaxProps - NProps(pm) - NProps(qm) - NProps(hm)
                               - NProps(cm)) :
        o = Operation(<<"/", "u">>, pm, qm, hm, cm, bm, FALSE)

----------------------------------------------------------------------------
(* The descriptor, used by one thread                                      *)

NoRet == [kind |-> "none"]

\* the descriptor after __init__ (lines 30-32), nothing called yet
FreshDescriptor ==
    /\ self_key_to_loc = <<>>
    /\ self_schema = None
    /\ self_validator = None
    /\ analyze_calls = 0
    /\ first_schema = None
    /\ ret = NoRet
    /\ pc = <<>>
    /\ local = <<>>

Fresh == FreshDescriptor /\ call = NoRet

\* lines 47-54: store the analysis and the schema built from it
StoreAnalysis(st) ==
    /\ self_key_to_loc' = st.key_to_loc
    /\ self_schema' = BuildSchema(op, st)
    /\ analyze_calls' = analyze_calls + 1

\* faulty variant: the schema is rebuilt on every access
schema_uncached ==
    /\ \E ord \in NestedOrders(op) : StoreAnalysis(analyze_metas(op, ord))
    /\ first_schema' = IF first_schema = None THEN self_schema' ELSE first_schema
    /\ ret' = [kind |-> "schema", val |-> self_schema']
    /\ UNCHANGED <<op, self_validator, pc, local, call>>

\* faulty variant: composing empties the fragment of a nested cookie
\* location in the Operation itself
schema_emptying_nested ==
    /\ IF self_schema = None
       THEN \E ord \in NestedOrders(op) : StoreAnalysis(analyze_metas(op, ord))
       ELSE UNCHANGED <<self_key_to_loc, self_schema, analyze_calls>>
    /\ first_schema' = IF first_schema = None THEN self_schema' ELSE first_schema
    /\ ret' = [kind |-> "schema", val |-> self_schema']
    /\ op' = IF "requestCookie" \in FirstPass(metas(op), 5).nested_locs
             THEN [op EXCEPT !.cookie_meta.schema_.properties = <<>>]
             ELSE op
    /\ UNCHANGED <<self_validator, pc, local, call>>

\* the schema property, lines 46-55, as one call
schema ==
    /\ IF self_schema = None
       THEN \E ord \in NestedOrders(op) : StoreAnalysis(analyze_metas(op, ord))
       ELSE UNCHANGED <<self_key_to_loc, self_schema, analyze_calls>>
    /\ first_schema' = IF first_schema = None THEN self_schema' ELSE first_schema
    /\ ret' = [kind |-> "schema", val |-> self_schema']
    /\ UNCHANGED <<op, self_validator, pc, local, call>>

InitCompose == IsComposeOp(op) /\ Fresh
NextCompose == schema
SpecCompose == InitCompose /\ [][NextCompose]_vars

----------------------------------------------------------------------------
(* Validation and request building                                         *)

\* jsonschema validation of value v against schema sch, for the vocabulary
\* the composed schemas use: type, properties, required
RECURSIVE Valid(_, _)
Valid(sch, v) ==
    /\ ("type" \in DOMAIN sch /\ sch.type = "object") => v.t = "dict"
    /\ v.t = "dict" =>
          /\ "required" \in DOMAIN sch => Range(sch.required) \subseteq KeySet(v.pairs)
          /\ "properties" \in DOMAIN sch =>
                \A k \in KeySet(v.pairs) \cap KeySet(sch.properties) :
                    Valid(DictGet(sch.properties, k), DictGet(v.pairs, k))

\* SchemaValidator.validate_python
validate(validator, obj) ==
    IF Valid(validator.schema, obj) THEN [ok |-> TRUE, val |-> obj, err |-> "none"]
    ELSE [ok |-> FALSE, val |-> None, err |-> "ValidationError"]

EmptyParams == [loc \in ReservedKeys |-> <<>>]

\* dict.update(value) for an argument that need not be a dict
UpdateOk(value) ==
    \/ value.t = "dict"
    \/ value.t = "list" /\ value.items = <<>>
    \/ value.t = "str" /\ value.s = <<>>

\* the loop of _build_request_model (lines 114-120) over validated_obj.items()
RECURSIVE Distribute(_, _, _)
Distribute(items, key_to_loc, params) ==
    IF items = <<>> THEN [ok |-> TRUE, params |-> params, err |-> "none"]
    ELSE LET key == Head(items)[1]
             value == Head(items)[2]
         IN IF key \in ReservedKeys
            THEN IF ~UpdateOk(value)
                 THEN [ok |-> FALSE, params |-> params, err |-> "TypeError"]
                 ELSE Distribute(Tail(items), key_to_loc,
                         [params EXCEPT ![key] = DictUpdate(@, value.pairs)])
            ELSE IF DictHas(key_to_loc, key)
            THEN Distribute(Tail(items), key_to_loc,
                    [params EXCEPT ![DictGet(key_to_loc, key)] =
                                        DictSet(@, key, value)])
            ELSE Distribute(Tail(items), key_to_loc, params)

Encodings(meta) == IF meta # None THEN meta.encodings ELSE <<>>

\* faulty variant: an empty bucket is passed on as an empty dict
OrEmpty(bucket) == PyDict(bucket)
OrNone(bucket) == IF bucket # <<>> THEN PyDict(bucket) ELSE None

\* lines 122-132
PathOf(o, path_params) ==
    IF path_params # <<>>
    THEN format_path(o.path, path_params, Encodings(o.path_meta))
    ELSE Ok(o.path)
QueryOf(o, query_params) ==
    IF query_params # <<>>
    THEN format_query(query_params, Encodings(o.query_meta))
    ELSE Ok(<<>>)

\* lines 134-142
RequestModel(o, params, path, query) ==
    IF ~path.ok THEN [ok |-> FALSE, val |-> None, err |-> path.err]
    ELSE IF ~query.ok THEN [ok |-> FALSE, val |-> None, err |-> query.err]
    ELSE [ok |-> TRUE, err |-> "none",
          val |-> [path |-> PyStr(path.val),
                   method |-> o.method,
                   queries |-> OrNone(params["requestQuery"]),
                   encoded_query |-> IF params["requestQuery"] # <<>>
                                     THEN PyStr(query.val) ELSE None,
                   headers |-> OrNone(params["requestHeader"]),
                   cookies |-> OrNone(params["requestCookie"]),
                   body |-> OrNone(params["requestBody"])]]

BuildFrom(o, d) ==
    IF ~d.ok THEN [ok |-> FALSE, val |-> None, err |-> d.err]
    ELSE RequestModel(o, d.params, PathOf(o, d.params["requestPath"]),
                      QueryOf(o, d.params["requestQuery"]))

build_request_model(o, key_to_loc, validated_obj) ==
    BuildFrom(o, Distribute(validated_obj.pairs, key_to_loc, EmptyParams))

\* the outcome of _validate_python once the validator has run
Returned(input, r) ==
    IF ~r.ok THEN [kind |-> "raise", err |-> r.err, obj |-> input]
    ELSE [kind |-> "RequestModel", val |-> r.val, obj |-> input]
\* faulty variant: the validator's error is swallowed and the request model
\* is built from the unvalidated object
ValidatedAnyway(o, key_to_loc, input, v) ==
    Returned(input, build_request_model(o, key_to_loc, input))
Validated(o, key_to_loc, input, v) ==
    IF ~v.ok THEN [kind |-> "raise", err |-> v.err, obj |-> input]
    ELSE Returned(input, build_request_model(o, key_to_loc, v.val))

\* faulty variant: the request model is built from the key-location map as
\* it was when the call began
validate_python_stale_map(input) ==
    /\ IF self_schema = None
       THEN \E ord \in NestedOrders(op) : StoreAnalysis(analyze_metas(op, ord))
       ELSE UNCHANGED <<self_key_to_loc, self_schema, analyze_calls>>
    /\ first_schema' = IF first_schema = None THEN self_schema' ELSE first_schema
    /\ self_validator' = IF self_validator = None
                         THEN [schema |-> self_schema'] ELSE self_validator
    /\ ret' = Validated(op, self_key_to_loc, input,
                        validate(self_validator', input))
    /\ UNCHANGED <<op, pc, local, call>>

\* OperationDescriptor._validate_python (lines 144-155), as one call
validate_python(input) ==
    /\ IF self_schema = None
       THEN \E ord \in NestedOrders(op) : StoreAnalysis(analyze_metas(op, ord))
       ELSE UNCHANGED <<self_key_to_loc, self_schema, analyze_calls>>
    /\ first_schema' = IF first_schema = None THEN self_schema' ELSE first_schema
    /\ self_validator' = IF self_validator = None
                         THEN [schema |-> self_schema'] ELSE self_validator
    /\ ret' = Validated(op, self_key_to_loc', input,
                        validate(self_validator', input))
    /\ UNCHANGED <<op, pc, local, call>>

----------------------------------------------------------------------------
(* Operations and input objects of the descriptor model                    *)

PathTemplate == <<"/", "u", "/", "{", "a", "}">>
PlainPath == <<"/", "u">>

Style(name, explode) == [style |-> PyStr(<<name>>), explode |-> explode]
PyTrue == [t |-> "bool", s |-> <<"True">>, items |-> <<>>, pairs |-> <<>>]
PyFalse == [t |-> "bool", s |-> <<"False">>, items |-> <<>>, pairs |-> <<>>]

\* <<path template, path_meta>>
PathChoices ==
    {<<PlainPath, None>>,
     <<PathTemplate, Meta("requestPath", Fragment("requestPath", <<"a">>, <<>>), <<>>)>>,
     <<PathTemplate, Meta("requestPath", Fragment("requestPath", <<"a">>, <<"a">>),
                          << <<"a", Style("label", PyFalse)>> >>)>>,
     <<PathTemplate, Meta("requestPath", Fragment("requestPath", <<"b", "a">>, <<>>),
                          <<>>)>>}

QueryChoices ==
    {None,
     Meta("requestQuery", Fragment("requestQuery", <<"b">>, <<>>), <<>>),
     Meta("requestQuery", Fragment("requestQuery", <<"a">>, <<>>),
          << <<"a", Style("pipeDelimited", PyFalse)>> >>)}

PlainChoices(loc) == {None, Meta(loc, Fragment(loc, <<"b">>, <<>>), <<>>)}

BodyChoices == {None, Meta("requestBody", Fragment("requestBody", <<"a">>, <<>>), <<>>)}

IsDescriptorOp(o) ==
    \E p \in PathChoices, qm \in QueryChoices,
       hm \in PlainChoices("requestHeader"), cm \in PlainChoices("requestCookie"),
       bm \in BodyChoices :
        o = Operation(p[1], p[2], qm, hm, cm, bm, FALSE)

\* the values an input object gives a key
ValuesFor(k) ==
    IF k \in ReservedKeys
    THEN {PyDict(<<>>), PyDict(<< <<"a", PyInt("2")>> >>)}
    ELSE {PyInt("1")}

ObjKeys == {"a", "b", "z"} \cup ReservedKeys

RECURSIVE PairsOver(_)
PairsOver(ks) ==
    IF ks = <<>> THEN {<<>>}
    ELSE {<< <<Head(ks), v>> >> \o rest :
             v \in ValuesFor(Head(ks)), rest \in PairsOver(Tail(ks))}

\* the input objects: dicts of at most MaxObjKeys items
Objects ==
    {PyDict(<<>>)} \cup
    {PyDict(ps) : ps \in UNION {PairsOver(ks) : ks \in DistinctSeqs(ObjKeys, MaxObjKeys)}}

\* the input objects of the call sequences: one that validates everywhere,
\* one that flattens a path key, one that names reserved keys
CallObjects ==
    {PyDict(<<>>),
     PyDict(<< <<"a", PyInt("1")>>, <<"requestBody", PyDict(<< <<"a", PyInt("2")>> >>)>> >>),
     PyDict(<< <<"requestPath", PyDict(<< <<"a", PyInt("2")>> >>)>>, <<"b", PyInt("1")>> >>)}

\* any sequence of schema accesses and validate_python calls on one descriptor
Init == IsDescriptorOp(op) /\ Fresh
Next ==
    \/ schema
    \/ \E obj \in CallObjects : validate_python(obj)
Spec == Init /\ [][Next]_vars

\* one descriptor and one input object: the object is validated
InitRequest ==
    /\ IsDescriptorOp(op)
    /\ FreshDescriptor
    /\ \E obj \in Objects : call = [fn |-> "validate_python", obj |-> obj]
NextRequest == validate_python(call.obj)
SpecRequest == InitRequest /\ [][NextRequest]_vars

----------------------------------------------------------------------------
(* Concurrent first-time accesses to the schema property                   *)
(* Each thread runs lines 46-55; a step is one read or write of a          *)
(* descriptor attribute.  _analyze_metas works on its own locals and on    *)
(* the Operation, which no thread writes.                                  *)

Threads == 1..MaxThreads

NoLocal == [st |-> None, seen_schema |-> None, seen_map |-> None]

InitThreads ==
    /\ IsDescriptorOp(op)
    /\ self_key_to_loc = <<>>
    /\ self_schema = None
    /\ self_validator = None
    /\ analyze_calls = 0
    /\ first_schema = None
    /\ ret = NoRet
    /\ call = NoRet
    /\ pc = [t \in Threads |-> "idle"]
    /\ local = [t \in Threads |-> NoLocal]

\* line 46: if self.__schema is None
t_check(t) ==
    /\ pc[t] = "idle"
    /\ pc' = [pc EXCEPT ![t] = IF self_schema = None THEN "analyze" ELSE "return"]
    /\ UNCHANGED <<op, self_key_to_loc, self_schema, self_validator,
                   analyze_calls, first_schema, ret, local, call>>

\* line 47, right-hand side: self._analyze_metas()
t_analyze(t) ==
    /\ pc[t] = "analyze"
    /\ \E ord \in NestedOrders(op) :
          local' = [local EXCEPT ![t].st = analyze_metas(op, ord)]
    /\ analyze_calls' = analyze_calls + 1
    /\ pc' = [pc EXCEPT ![t] = "store_map"]
    /\ UNCHANGED <<op, self_key_to_loc, self_schema, self_validator,
                   first_schema, ret, call>>

\* faulty variant: the schema is published before the map is stored
t_store_schema_first(t) ==
    /\ pc[t] = "store_map"
    /\ self_schema' = BuildSchema(op, local[t].st)
    /\ pc' = [pc EXCEPT ![t] = "store_schema"]
    /\ UNCHANGED <<op, self_key_to_loc, self_validator, analyze_calls,
                   first_schema, ret, local, call>>

\* line 47, left-hand side: self.__key_to_loc = ...
t_store_map(t) ==
    /\ pc[t] = "store_map"
    /\ self_key_to_loc' = local[t].st.key_to_loc
    /\ pc' = [pc EXCEPT ![t] = "store_schema"]
    /\ UNCHANGED <<op, self_schema, self_validator, analyze_calls,
                   first_schema, ret, local, call>>

\* lines 49-54: self.__schema = schema
t_store_schema(t) ==
    /\ pc[t] = "store_schema"
    /\ self_schema' = BuildSchema(op, local[t].st)
    /\ pc' = [pc EXCEPT ![t] = "return"]
    /\ UNCHANGED <<op, self_key_to_loc, self_validator, analyze_calls,
                   first_schema, ret, local, call>>

\* line 55: return self.__schema; the caller then reads the map
t_return(t) ==
    /\ pc[t] = "return"
    /\ local' = [local EXCEPT ![t].seen_schema = self_schema,
                              ![t].seen_map = PyDict(self_key_to_loc)]
    /\ first_schema' = IF first_schema = None THEN self_schema ELSE first_schema
    /\ pc' = [pc EXCEPT ![t] = "done"]
    /\ UNCHANGED <<op, self_key_to_loc, self_schema, self_validator,
                   analyze_calls, ret, call>>

\* the thread accesses the property again
t_again(t) ==
    /\ pc[t] = "done"
    /\ pc' = [pc EXCEPT ![t] = "idle"]
    /\ UNCHANGED <<op, self_key_to_loc, self_schema, self_validator,
                   analyze_calls, first_schema, ret, local, call>>

NextThreads ==
    \E t \in Threads :
        \/ t_check(t)
        \/ t_analyze(t)
        \/ t_store_map(t)
        \/ t_store_schema(t)
        \/ t_return(t)
        \/ t_again(t)

SpecThreads == InitThreads /\ [][NextThreads]_vars

----------------------------------------------------------------------------
(* format_path applied to bounded inputs                                   *)

PathTemplates ==
    {PlainPath, PathTemplate, <<"/", "{", "a", "}", "/", "{", "b", "}">>}

ParamNames == {"a", "b"}

PathValues ==
    {PyInt("1"), PyList(<<PyInt("3"), PyInt("4")>>),
     PyDict(<< <<"r", PyStr(<<"x">>)>> >>)}

\* dicts name -> value over a sequence of names
RECURSIVE DictsOver(_, _)
DictsOver(ks, V) ==
    IF ks = <<>> THEN {<<>>}
    ELSE {<< <<Head(ks), v>> >> \o rest : v \in V, rest \in DictsOver(Tail(ks), V)}

ParamDicts ==
    {<<>>} \cup UNION {DictsOver(ks, PathValues) : ks \in DistinctSeqs(ParamNames, 2)}

\* EncodingMeta values; the style is not checked when EncodingMeta is built
\* without a type argument (tests/test_openapi_operation_descriptor.py:345)
PathEncodingMetas ==
    {Style(st, ex) : st \in PathStyles \cup {"unsupportedStyle"},
                     ex \in {PyTrue, PyFalse}}

EncodingDicts ==
    {<<>>} \cup UNION {DictsOver(ks, PathEncodingMetas) :
                          ks \in {<<"a">>, <<"b">>, <<"a", "b">>}}

InitFormatPath ==
    /\ op = None
    /\ FreshDescriptor
    /\ \E path \in PathTemplates, params \in ParamDicts, encodings \in EncodingDicts :
          call = [fn |-> "format_path", path |-> path, params |-> params,
                  encodings |-> encodings, done |-> FALSE, result |-> Raise("pending")]

apply_format_path ==
    /\ call.fn = "format_path"
    /\ ~call.done
    /\ call' = [call EXCEPT !.done = TRUE,
                            !.result = format_path(call.path, call.params,
                                                   call.encodings)]
    /\ UNCHANGED <<op, self_key_to_loc, self_schema, self_validator,
                   analyze_calls, first_schema, ret, pc, local>>

NextFormatPath == apply_format_path
SpecFormatPath == InitFormatPath /\ [][NextFormatPath]_vars

----------------------------------------------------------------------------
(* encode_path_parameter and encode_query_parameter applied to bounded     *)
(* inputs                                                                  *)

\* scalar values: an int, plain text, text with reserved characters, the
\* empty string
Scalars ==
    {PyInt("5"), PyStr(<<"x">>), PyStr(<<>>),
     PyStr(<<"a", "/", "b">>), PyStr(<<"a", ",", "b">>),
     PyStr(<<"q", " ", "w", "&", "e", "=", "r", "+", "t", "?", "y", "#">>)}

\* a nested array and a nested object
Nested ==
    {PyList(<<PyInt("1"), PyInt("2")>>), PyDict(<< <<"c", PyInt("3")>> >>)}

Elems == Scalars \cup Nested

ObjNames == {"r", "f", "k"}

\* arrays and objects of at most MaxItems elements
Arrays ==
    {PyList(<<>>)} \cup {PyList(xs) : xs \in UNION {[1..m -> Elems] : m \in 1..MaxItems}}
ObjectValues ==
    {PyDict(<<>>)} \cup
    {PyDict(ps) : ps \in UNION {DictsOver(ks, Elems) : ks \in DistinctSeqs(ObjNames, MaxItems)}}

EncoderValues == Scalars \cup Arrays \cup ObjectValues

\* the style argument: omitted, empty, or a name
StyleArgs(names) == {None, PyStr(<<>>)} \cup {PyStr(<<n>>) : n \in names}
\* the explode argument
ExplodeArgs == {None, PyTrue, PyFalse}

InitEncodePath ==
    /\ op = None
    /\ FreshDescriptor
    /\ \E value \in EncoderValues,
          style \in StyleArgs(PathStyles \cup {"form", "unsupported_style"}),
          explode \in ExplodeArgs :
          call = [fn |-> "encode_path_parameter", name |-> "id", value |-> value,
                  style |-> style, explode |-> explode,
                  done |-> FALSE, result |-> Raise("pending")]

apply_encode_path ==
    /\ call.fn = "encode_path_parameter"
    /\ ~call.done
    /\ call' = [call EXCEPT !.done = TRUE,
                            !.result = encode_path_parameter(call.name, call.value,
                                                             call.style, call.explode)]
    /\ UNCHANGED <<op, self_key_to_loc, self_schema, self_validator,
                   analyze_calls, first_schema, ret, pc, local>>

NextEncodePath == apply_encode_path
SpecEncodePath == InitEncodePath /\ [][NextEncodePath]_vars

InitEncodeQuery ==
    /\ op = None
    /\ FreshDescriptor
    /\ \E value \in EncoderValues,
          style \in StyleArgs(QueryStyles \cup {"simple", "unsupported_style"}),
          explode \in ExplodeArgs :
          call = [fn |-> "encode_query_parameter", name |-> "id", value |-> value,
                  style |-> style, explode |-> explode,
                  done |-> FALSE, result |-> Raise("pending")]

apply_encode_query ==
    /\ call.fn = "encode_query_parameter"
    /\ ~call.done
    /\ call' = [call EXCEPT !.done = TRUE,
                            !.result = encode_query_parameter(call.name, call.value,
                                                              call.style, call.explode)]
    /\ UNCHANGED <<op, self_key_to_loc, self_schema, self_validator,
                   analyze_calls, first_schema, ret, pc, local>>

NextEncodeQuery == apply_encode_query
SpecEncodeQuery == InitEncodeQuery /\ [][NextEncodeQuery]_vars

----------------------------------------------------------------------------
(* format_query applied to bounded inputs, and the RequestModel view       *)
(* path_with_query                                                         *)

QueryNames == {"a", "b", "c"}

QueryValues ==
    {PyInt("1"), PyList(<<>>), PyList(<<PyInt("3"), PyInt("4")>>),
     PyDict(<< <<"r", PyStr(<<"x">>)>> >>)}

\* the params of format_query: at most MaxParams parameters
QueryParamDicts ==
    {<<>>} \cup
    UNION {DictsOver(ks, QueryValues) : ks \in DistinctSeqs(QueryNames, MaxParams)}

QueryEncodingMetas ==
    {Style("form", PyFalse), Style("pipeDelimited", PyFalse),
     Style("deepObject", PyTrue), Style("unsupportedStyle", PyFalse)}

\* encodings: each name has no entry or one of the metas
QueryEncodingDicts ==
    {<<>>} \cup
    UNION {DictsOver(ks, QueryEncodingMetas) :
              ks \in {<<"a">>, <<"b">>, <<"c">>, <<"a", "b">>, <<"a", "c">>,
                      <<"b", "c">>, <<"a", "b", "c">>}}

InitFormatQuery ==
    /\ op = None
    /\ FreshDescriptor
    /\ \E params \in QueryParamDicts, encodings \in QueryEncodingDicts :
          call = [fn |-> "format_query", params |-> params,
                  encodings |-> encodings, done |-> FALSE,
                  result |-> Raise("pending")]

apply_format_query ==
    /\ call.fn = "format_query"
    /\ ~call.done
    /\ call' = [call EXCEPT !.done = TRUE,
                            !.result = format_query(call.params, call.encodings)]
    /\ UNCHANGED <<op, self_key_to_loc, self_schema, self_validator,
                   analyze_calls, first_schema, ret, pc, local>>

NextFormatQuery == apply_format_query
SpecFormatQuery == InitFormatQuery /\ [][NextFormatQuery]_vars

\* faulty variant: only an encoded_query of None counts as absent
path_with_query_unless_none(m) ==
    IF m.encoded_query = None THEN m.path
    ELSE PyStr(m.path.s \o <<"?">> \o m.encoded_query.s)

\* RequestModel.path_with_query
path_with_query(m) ==
    IF ~Truthy(m.encoded_query) THEN m.path
    ELSE PyStr(m.path.s \o <<"?">> \o m.encoded_query.s)

RenderedPaths == {<<"/", "u">>, <<"/", "u", "/", "1">>}

\* the request models _build_request_model returns for a query bucket
QueryModel(path, params, query) ==
    RequestModel([method |-> "GET"],
                 [EmptyParams EXCEPT !["requestQuery"] = params],
                 Ok(path), query)

InitPathWithQuery ==
    /\ op = None
    /\ FreshDescriptor
    /\ \E path \in RenderedPaths, params \in QueryParamDicts,
          encodings \in QueryEncodingDicts :
          /\ format_query(params, encodings).ok
          /\ call = [fn |-> "path_with_query",
                     model |-> QueryModel(path, params,
                                          format_query(params, encodings)).val,
                     done |-> FALSE, result |-> None]

apply_path_with_query ==
    /\ call.fn = "path_with_query"
    /\ ~call.done
    /\ call' = [call EXCEPT !.done = TRUE, !.result = path_with_query(call.model)]
    /\ UNCHANGED <<op, self_key_to_loc, self_schema, self_validator,
                   analyze_calls, first_schema, ret, pc, local>>

NextPathWithQuery == apply_path_with_query
SpecPathWithQuery == InitPathWithQuery /\ [][NextPathWithQuery]_vars

----------------------------------------------------------------------------
(* Vocabulary of the composition properties                                *)

\* the composition order the documentation fixes: path, query, header,
\* cookie, body
Rank(loc) ==
    CASE loc = "requestPath" -> 1
      [] loc = "requestQuery" -> 2
      [] loc = "requestHeader" -> 3
      [] loc = "requestCookie" -> 4
      [] loc = "requestBody" -> 5

NonBody == ReservedKeys \ {"requestBody"}

Declared(o) == {loc \in ReservedKeys : MetaPresent(metas(o)[loc])}
DeclaredProps(o, loc) == SchemaProps(metas(o)[loc].schema_)
DeclaredKeys(o, loc) == KeySet(DeclaredProps(o, loc))

Composed == self_schema # None
TopProps == self_schema.properties
\* a location is nested when its reserved key is a top-level property
IsNested(loc) == DictHas(TopProps, loc)
\* the locations that own top-level key k: a nested location owns its
\* reserved key, a flattened one owns the keys it declares
Owners(k) ==
    {loc \in Declared(op) :
        IF IsNested(loc) THEN k = loc ELSE k \in DeclaredKeys(op, loc)}

MapsTo(k, loc) == DictHas(self_key_to_loc, k) /\ DictGet(self_key_to_loc, k) = loc

\* the keys claimed by other locations at the moment loc is processed
ClaimedBefore(o, loc) == KeySet(FirstPass(metas(o), Rank(loc) - 1).key_to_loc)
\* the keys loc had flattened at the end of the first loop
FlattenedInFirstPass(o, loc) ==
    {k \in KeySet(FirstPass(metas(o), 5).key_to_loc) :
        DictGet(FirstPass(metas(o), 5).key_to_loc, k) = loc}

Collides(o, loc) ==
    \/ DeclaredKeys(o, loc) \cap ReservedKeys # {}
    \/ DeclaredKeys(o, loc) \cap ClaimedBefore(o, loc) # {}

----------------------------------------------------------------------------
(* C1: after _analyze_metas every top-level key of the composed properties *)
(* is owned by exactly one location - a flattened key mapped to that       *)
(* location by the key-location map, or the reserved key of one nested     *)
(* location - and the domain of the key-location map is exactly the set    *)
(* of non-reserved top-level keys.                                         *)
C1_KeysPartitioned ==
    Composed =>
        /\ Cardinality(KeySet(TopProps)) = Len(TopProps)
        /\ \A k \in KeySet(TopProps) : Cardinality(Owners(k)) = 1
        /\ \A k \in KeySet(TopProps) \ ReservedKeys :
                \E loc \in Owners(k) : MapsTo(k, loc)
        /\ KeySet(self_key_to_loc) = KeySet(TopProps) \ ReservedKeys
        /\ Cardinality(KeySet(self_key_to_loc)) = Len(self_key_to_loc)

\* a composition with a nested non-body location that had flattened a key,
\* a flattened location and a body
C1_Witness ==
    /\ Composed
    /\ \E loc \in NonBody : IsNested(loc) /\ FlattenedInFirstPass(op, loc) # {}
    /\ self_key_to_loc # <<>>
    /\ IsNested("requestBody")

(* C2: whenever the body location is declared, the composed schema holds   *)
(* it only as requestBody = {type: object, properties: bodyProps}; no body *)
(* sub-key is a top-level property or key-location entry on the body's     *)
(* account, whatever its name.                                             *)
C2_BodyAlwaysNested ==
    (Composed /\ "requestBody" \in Declared(op)) =>
        /\ DictHas(TopProps, "requestBody")
        /\ DictGet(TopProps, "requestBody") =
              [type |-> "object", properties |-> DeclaredProps(op, "requestBody")]
        /\ \A k \in KeySet(self_key_to_loc) : ~MapsTo(k, "requestBody")
        /\ \A k \in (DeclaredKeys(op, "requestBody") \cap KeySet(TopProps))
                        \ {"requestBody"} :
              \E loc \in Declared(op) \ {"requestBody"} :
                 \/ /\ MapsTo(k, loc)
                    /\ DictHas(DeclaredProps(op, loc), k)
                    /\ DictGet(TopProps, k) = DictGet(DeclaredProps(op, loc), k)
                 \/ /\ k = loc
                    /\ DictGet(TopProps, k) = metas(op)[loc].schema_

\* a body whose sub-keys include a key a flattened location owns and a
\* reserved key
C2_Witness ==
    /\ Composed
    /\ "requestBody" \in Declared(op)
    /\ \E k \in DeclaredKeys(op, "requestBody") : DictHas(self_key_to_loc, k)
    /\ DeclaredKeys(op, "requestBody") \cap ReservedKeys # {}

(* C3: a non-body location that declares a reserved key, or a key already  *)
(* claimed by a different location when it is processed, ends up nested:   *)
(* its reserved key maps to its whole fragment and none of its keys stays  *)
(* a top-level property or key-location entry attributed to it.            *)
C3_CollisionNestsWholeLocation ==
    Composed =>
        \A loc \in Declared(op) \cap NonBody :
            Collides(op, loc) =>
                /\ DictHas(TopProps, loc)
                /\ DictGet(TopProps, loc) = metas(op)[loc].schema_
                /\ \A k \in KeySet(self_key_to_loc) : ~MapsTo(k, loc)
                /\ \A k \in DeclaredKeys(op, loc) \cap KeySet(TopProps) :
                      k \in ReservedKeys \/ \E other \in Declared(op) \ {loc} :
                                               MapsTo(k, other)

\* a location that flattened one key and then met a key claimed earlier
C3_Witness ==
    /\ Composed
    /\ \E loc \in Declared(op) \cap NonBody :
          /\ DeclaredKeys(op, loc) \cap ReservedKeys = {}
          /\ DeclaredKeys(op, loc) \cap ClaimedBefore(op, loc) # {}
          /\ FlattenedInFirstPass(op, loc) # {}

\* exactly two non-body locations share a key and no non-body location
\* declares a reserved key
SharingPairs(o) ==
    {p \in (Declared(o) \cap NonBody) \X (Declared(o) \cap NonBody) :
        /\ Rank(p[1]) < Rank(p[2])
        /\ DeclaredKeys(o, p[1]) \cap DeclaredKeys(o, p[2]) # {}}

NoReservedDeclared(o) ==
    \A loc \in Declared(o) \cap NonBody : DeclaredKeys(o, loc) \cap ReservedKeys = {}

(* C4: locations are composed in the order path, query, header, cookie,    *)
(* body and later ones yield: when exactly two non-body locations share a  *)
(* key and none declares a reserved key, the earlier one stays flattened   *)
(* and owns the key, the later one is nested under its reserved key.       *)
C4_LaterYieldsToEarlier ==
    (Composed /\ NoReservedDeclared(op) /\ Cardinality(SharingPairs(op)) = 1) =>
        \A p \in SharingPairs(op) :
            /\ ~IsNested(p[1])
            /\ \A k \in DeclaredKeys(op, p[1]) :
                  DictHas(TopProps, k) /\ MapsTo(k, p[1])
            /\ IsNested(p[2])
            /\ DictGet(TopProps, p[2]) = metas(op)[p[2]].schema_
            /\ \A k \in DeclaredKeys(op, p[2]) : ~MapsTo(k, p[2])

C4_Witness ==
    /\ Composed
    /\ NoReservedDeclared(op)
    /\ Cardinality(SharingPairs(op)) = 1
    /\ \E p \in SharingPairs(op) : IsNested(p[2]) /\ Rank(p[1]) > 1

----------------------------------------------------------------------------
(* Vocabulary of the request properties                                    *)

Built == ret.kind = "RequestModel"
Input == ret.obj.pairs

\* item i of the input writes key k into the bucket of location loc
Writes(i, k, loc) ==
    \/ Input[i][1] = k /\ k \notin ReservedKeys /\ MapsTo(k, loc)
    \/ Input[i][1] = loc /\ DictHas(Input[i][2].pairs, k)
WrittenValue(i, k) ==
    IF Input[i][1] = k THEN Input[i][2] ELSE DictGet(Input[i][2].pairs, k)

Writers(k, loc) == {i \in 1..Len(Input) : Writes(i, k, loc)}
LastWriter(k, loc) == CHOOSE i \in Writers(k, loc) : \A j \in Writers(k, loc) : j <= i

AllInputKeys ==
    KeySet(Input) \cup UNION {KeySet(Input[i][2].pairs) : i \in 1..Len(Input)}

\* what the bucket of loc must hold, as a set of <<key, value>> pairs
ExpectedBucket(loc) ==
    {<<k, WrittenValue(LastWriter(k, loc), k)>> :
        k \in {x \in AllInputKeys : Writers(x, loc) # {}}}

\* a request component as a set of pairs; None is the empty set
Component(v) == IF v = None THEN {} ELSE Range(v.pairs)

SetToSeq(S) ==
    CHOOSE q \in [1..Cardinality(S) -> S] :
        \A i, j \in 1..Cardinality(S) : i # j => q[i] # q[j]

Flattened(loc) == loc \in Declared(op) /\ ~IsNested(loc)

(* C5: the composed schema and the key-location map are computed on the   *)
(* first schema access and memoized: over any sequence of schema accesses  *)
(* and validate calls _analyze_metas runs at most once, and every access   *)
(* returns the value the first one returned.                               *)
C5_SchemaMemoized ==
    /\ analyze_calls <= 1
    /\ (analyze_calls = 0) <=> (self_schema = None)
    /\ (self_schema = None) => self_key_to_loc = <<>>
    /\ (self_schema # None) => self_schema = first_schema
    /\ (ret.kind = "schema") => ret.val = first_schema
    /\ (self_validator # None) => self_validator.schema = first_schema

\* a schema access that follows a validate call
C5_Witness ==
    /\ self_validator # None
    /\ ret.kind = "schema"
    /\ analyze_calls = 1
    /\ self_key_to_loc # <<>>

C7_WitnessFlat ==
    /\ Built
    /\ \A loc \in Declared(op) \cap NonBody : Flattened(loc)
    /\ MapsTo("a", "requestPath")
    /\ DictHas(Input, "a") /\ DictHas(Input, "requestBody")
    /\ ret.val.body # None
    /\ ret.val.path = PyStr(<<"/", "u", "/", "1">>)

(* C8: building a request model raises a missing-parameter error whenever  *)
(* the path template references a placeholder absent from the requestPath  *)
(* bucket, the empty bucket included; no RequestModel whose path still     *)
(* holds a {name} placeholder is returned.                                 *)
C8_MissingPathParameterRaises ==
    Built =>
        /\ \A i \in 2..Len(op.path) :
              op.path[i - 1] = "{" =>
                 op.path[i] \in {p[1] : p \in ExpectedBucket("requestPath")}
        /\ "{" \notin Range(ret.val.path.s)

(* C10: in every RequestModel returned, queries, headers, cookies and body *)
(* are each None or a non-empty mapping; encoded_query is None whenever    *)
(* the query bucket is empty; queries is None iff encoded_query is None.   *)
C10_EmptyBucketsAbsent ==
    Built =>
        /\ \A v \in {ret.val.queries, ret.val.headers, ret.val.cookies,
                     ret.val.body} :
              v = None \/ (v.t = "dict" /\ v.pairs # <<>>)
        /\ (ExpectedBucket("requestQuery") = {}) => ret.val.encoded_query = None
        /\ (ret.val.queries = None) <=> (ret.val.encoded_query = None)

\* an empty object under requestHeader, and a query that is encoded
C10_Witness ==
    /\ Built
    /\ DictHas(Input, "requestHeader")
    /\ DictGet(Input, "requestHeader").pairs = <<>>
    /\ ret.val.headers = None
    /\ ret.val.queries # None
    /\ ret.val.encoded_query # None

----------------------------------------------------------------------------
(* Concurrency and formatter properties                                    *)

\* the result of one sequential computation
Sequential == analyze_metas(op, CHOOSE ord \in NestedOrders(op) : TRUE)

(* C6: under any interleaving of concurrent first-time schema accesses no  *)
(* reader sees inconsistent state: whenever the cached schema is set the   *)
(* key-location map is the complete map of that schema, and every racing   *)
(* computation stores the values of a single sequential computation.       *)
C6_RacingReadersConsistent ==
    /\ self_key_to_loc \in {<<>>, Sequential.key_to_loc}
    /\ (self_schema # None) =>
          /\ self_schema = BuildSchema(op, Sequential)
          /\ self_key_to_loc = Sequential.key_to_loc
    /\ \A t \in Threads :
          /\ (local[t].st # None) => local[t].st = Sequential
          /\ (pc[t] = "done") =>
                /\ local[t].seen_schema = BuildSchema(op, Sequential)
                /\ local[t].seen_map = PyDict(Sequential.key_to_loc)

\* two threads have both computed; one has stored the schema while the
\* other is still about to store its map
C6_Witness ==
    /\ Cardinality(NestedOrders(op)) > 1
    /\ analyze_calls = 2
    /\ self_schema # None
    /\ self_key_to_loc # <<>>
    /\ \E t \in Threads : pc[t] = "store_map"
    /\ \E t \in Threads : pc[t] = "done"

\* the names the template references
Placeholders(path) == {path[i] : i \in {j \in 2..Len(path) : path[j - 1] = "{"}}

\* the encoding format_path must substitute for a supplied name: the
\* configured style and explode, or simple / False
ConfiguredEncoding(name) ==
    IF DictHas(call.encodings, name)
    THEN encode_path_parameter(name, DictGet(call.params, name),
                               DictGet(call.encodings, name).style,
                               DictGet(call.encodings, name).explode)
    ELSE encode_path_parameter(name, DictGet(call.params, name),
                               PyStr(<<"simple">>), PyFalse)

\* the template with every replacement field replaced
Substituted(path) ==
    Join(<<>>, [i \in 1..Len(path) |->
                  IF path[i] \in {"{", "}"} THEN <<>>
                  ELSE IF i > 1 /\ path[i - 1] = "{"
                       THEN ConfiguredEncoding(path[i]).val
                       ELSE <<path[i]>>])

StylesRecognized ==
    \A n \in KeySet(call.params) :
        DictHas(call.encodings, n) =>
            DictGet(call.encodings, n).style.s[1] \in PathStyles

(* C9: format_path raises (KeyError) whenever the template has a           *)
(* placeholder whose name is not a key of params, the empty params         *)
(* included, and substitutes no default; when every placeholder is         *)
(* supplied it returns the template with each placeholder replaced by the  *)
(* parameter's path encoding under its configured or default style and     *)
(* explode.                                                                *)
C9_FormatPathMissingRaises ==
    (call.fn = "format_path" /\ call.done) =>
        /\ ~(Placeholders(call.path) \subseteq KeySet(call.params)) =>
              /\ ~call.result.ok
              /\ StylesRecognized => call.result.err = "KeyError"
        /\ (Placeholders(call.path) \subseteq KeySet(call.params)
                /\ StylesRecognized) =>
              /\ call.result.ok
              /\ call.result.val = Substituted(call.path)

\* one of two placeholders is supplied, the other is not
C9_Witness ==
    /\ call.fn = "format_path" /\ call.done
    /\ call.params # <<>>
    /\ ~(Placeholders(call.path) \subseteq KeySet(call.params))
    /\ call.result.err = "KeyError"

----------------------------------------------------------------------------
(* RequestModel and encoder properties                                     *)

(* C11: path_with_query equals path when encoded_query is absent or the    *)
(* empty string, and path + "?" + encoded_query otherwise; it never ends   *)
(* with a dangling "?".                                                    *)
C11_PathWithQuery ==
    (call.fn = "path_with_query" /\ call.done) =>
        /\ (call.model.encoded_query = None
              \/ call.model.encoded_query.s = <<>>) =>
                 call.result = call.model.path
        /\ (call.model.encoded_query # None
              /\ call.model.encoded_query.s # <<>>) =>
                 call.result.s = call.model.path.s \o <<"?">>
                                    \o call.model.encoded_query.s
        /\ call.result.s[Len(call.result.s)] # "?"

\* a query bucket whose only parameter is an empty array: the encoded
\* query is the empty string, not None
C11_Witness ==
    /\ call.fn = "path_with_query" /\ call.done
    /\ call.model.queries # None
    /\ call.model.encoded_query = PyStr(<<>>)
    /\ call.result = call.model.path

\* the arguments of the encoder call, as the documentation reads them
IsScalar(v) == v.t \notin {"list", "dict"}
OfScalars(v) ==
    CASE v.t = "list" -> \A i \in 1..Len(v.items) : IsScalar(v.items[i])
      [] v.t = "dict" -> \A i \in 1..Len(v.pairs) : IsScalar(v.pairs[i][2])
      [] OTHER -> TRUE
StyleOmitted == call.style = None \/ call.style.s = <<>>
StyleName(default) == IF StyleOmitted THEN default ELSE call.style.s[1]
PathExplode == call.explode = PyTrue

\* the units a value is rendered from: the text of a primitive, of each
\* array element, or each object pair as k=v (explode) or k,v
TableUnits(v, pairSep) ==
    CASE v.t = "list" -> [i \in 1..Len(v.items) |-> v.items[i].s]
      [] v.t = "dict" ->
            [i \in 1..Len(v.pairs) |-> <<v.pairs[i][1], pairSep>> \o v.pairs[i][2].s]
      [] OTHER -> <<v.s>>

\* one cell of the path-style table
PathTable(name, v, style, explode) ==
    CASE style = "simple" ->
            Join(<<",">>, TableUnits(v, IF explode THEN "=" ELSE ","))
      [] style = "label" ->
            <<".">> \o
            Join(IF explode THEN <<".">> ELSE <<",">>,
                 TableUnits(v, IF explode THEN "=" ELSE ","))
      [] style = "matrix" ->
            IF explode /\ v.t = "list"
            THEN <<";">> \o Join(<<";">>, Prefixed(<<name, "=">>, TableUnits(v, "=")))
            ELSE IF explode /\ v.t = "dict"
            THEN <<";">> \o Join(<<";">>, TableUnits(v, "="))
            ELSE <<";", name, "=">> \o Join(<<",">>, TableUnits(v, ","))

(* C12: for every style in {simple, label, matrix}, explode value and      *)
(* primitive, array of scalars or object of scalars (empty ones included), *)
(* encode_path_parameter returns the cell of the OpenAPI path-style table; *)
(* an omitted style is simple, an omitted explode is false, and no         *)
(* supported combination raises.                                           *)
C12_PathStyleTable ==
    (call.fn = "encode_path_parameter" /\ call.done
        /\ OfScalars(call.value) /\ StyleName("simple") \in PathStyles) =>
        /\ call.result.ok
        /\ call.result.val = PathTable(call.name, call.value,
                                       StyleName("simple"), PathExplode)

\* matrix, explode, an array of two scalars: ;id=5;id=x
C12_Witness ==
    /\ call.fn = "encode_path_parameter" /\ call.done
    /\ call.style = PyStr(<<"matrix">>) /\ call.explode = PyTrue
    /\ call.value = PyList(<<PyInt("5"), PyStr(<<"x">>)>>)
    /\ call.result = Ok(<<";", "id", "=", "5", ";", "id", "=", "x">>)

\* the units of a value when every emitted value goes through toStr
ToStrUnits(v, pairSep) ==
    CASE v.t = "list" -> [i \in 1..Len(v.items) |-> to_str(v.items[i])]
      [] v.t = "dict" ->
            [i \in 1..Len(v.pairs) |->
                <<v.pairs[i][1], pairSep>> \o to_str(v.pairs[i][2])]
      [] OTHER -> <<v.s>>

\* the path-style table over ToStrUnits
ToStrTable(name, v, style, explode) ==
    CASE style = "simple" ->
            Join(<<",">>, ToStrUnits(v, IF explode THEN "=" ELSE ","))
      [] style = "label" ->
            <<".">> \o
            Join(IF explode THEN <<".">> ELSE <<",">>,
                 ToStrUnits(v, IF explode THEN "=" ELSE ","))
      [] style = "matrix" ->
            IF explode /\ v.t = "list"
            THEN <<";">> \o Join(<<";">>, Prefixed(<<name, "=">>, ToStrUnits(v, "=")))
            ELSE IF explode /\ v.t = "dict"
            THEN <<";">> \o Join(<<";">>, ToStrUnits(v, "="))
            ELSE <<";", name, "=">> \o Join(<<",">>, ToStrUnits(v, ","))

(* C13: under every path style and explode value every emitted value is   *)
(* stringified by the one rule toStr: a nested array or object as compact  *)
(* JSON text, a scalar in its natural string form with no                  *)
(* percent-encoding.                                                       *)
C13_UniformStringification ==
    (call.fn = "encode_path_parameter" /\ call.done
        /\ StyleName("simple") \in PathStyles) =>
        /\ call.result.ok
        /\ call.result.val = ToStrTable(call.name, call.value,
                                        StyleName("simple"), PathExplode)

\* the same statement outside the matrix / explode cell of arrays
C13_OutsideMatrixExplodeArrays ==
    (call.fn = "encode_path_parameter" /\ call.done
        /\ StyleName("simple") \in PathStyles
        /\ ~(StyleName("simple") = "matrix" /\ PathExplode
                /\ call.value.t = "list")) =>
        /\ call.result.ok
        /\ call.result.val = ToStrTable(call.name, call.value,
                                        StyleName("simple"), PathExplode)

(* C14: encode_path_parameter raises for every style name outside          *)
(* {simple, label, matrix}, for every value kind (empty arrays and objects *)
(* included) and every explode value; it returns no string for an          *)
(* unrecognised style.  A style of None or "" is an omitted style.         *)
C14_UnrecognisedPathStyleRaises ==
    (call.fn = "encode_path_parameter" /\ call.done
        /\ ~StyleOmitted /\ StyleName("simple") \notin PathStyles) =>
        /\ ~call.result.ok
        /\ call.result.err = "ValueError"

\* an empty array under a query style name
C14_Witness ==
    /\ call.fn = "encode_path_parameter" /\ call.done
    /\ call.style = PyStr(<<"form">>)
    /\ call.value = PyList(<<>>)
    /\ call.result = Raise("ValueError")

\* explode as the query encoder reads it: omitted is true
QueryExplode == call.explode # PyFalse

\* the cells of the query-style table that are not errors
QuerySupported(v, style, explode) ==
    \/ style = "form"
    \/ style \in {"spaceDelimited", "pipeDelimited"} /\ v.t = "list"
    \/ style = "deepObject" /\ v.t = "dict" /\ explode

\* the percent-encoded text of each element or value of a scalar collection
QuotedTexts(v) ==
    CASE v.t = "list" -> [i \in 1..Len(v.items) |-> quote(v.items[i].s)]
      [] v.t = "dict" -> [i \in 1..Len(v.pairs) |-> quote(v.pairs[i][2].s)]
      [] OTHER -> <<quote(v.s)>>

\* k1<sep>v1, k2<sep>v2, ... for an object
KeyedTexts(v, pre, post) ==
    [i \in 1..Len(v.pairs) |-> pre \o <<v.pairs[i][1]>> \o post \o QuotedTexts(v)[i]]

\* one supported cell of the query-style table
QueryTable(name, v, style, explode) ==
    CASE style = "form" /\ v.t = "list" ->
            IF explode THEN Join(<<"&">>, Prefixed(<<name, "=">>, QuotedTexts(v)))
            ELSE <<name, "=">> \o Join(<<",">>, QuotedTexts(v))
      [] style = "form" /\ v.t = "dict" ->
            IF explode THEN Join(<<"&">>, KeyedTexts(v, <<>>, <<"=">>))
            ELSE <<name, "=">> \o Join(<<",">>, KeyedTexts(v, <<>>, <<",">>))
      [] style = "form" /\ v.t \notin {"list", "dict"} ->
            <<name, "=">> \o quote(v.s)
      [] style \in {"spaceDelimited", "pipeDelimited"} ->
            IF explode THEN Join(<<"&">>, Prefixed(<<name, "=">>, QuotedTexts(v)))
            ELSE <<name, "=">> \o
                 Join(IF style = "spaceDelimited" THEN <<"%20">> ELSE <<"|">>,
                      QuotedTexts(v))
      [] style = "deepObject" ->
            Join(<<"&">>, KeyedTexts(v, <<name, "[">>, <<"]", "=">>))

(* C15: for every supported, non-error cell encode_query_parameter returns *)
(* the cell of the OpenAPI query-style table (form, spaceDelimited,        *)
(* pipeDelimited, deepObject; values percent-encoded); an omitted style is *)
(* form and an omitted explode is true.                                    *)
C15_QueryStyleTable ==
    (call.fn = "encode_query_parameter" /\ call.done
        /\ OfScalars(call.value) /\ StyleName("form") \in QueryStyles
        /\ QuerySupported(call.value, StyleName("form"), QueryExplode)) =>
        /\ call.result.ok
        /\ call.result.val = QueryTable(call.name, call.value,
                                        StyleName("form"), QueryExplode)

\* style and explode both omitted, an array of two scalars: id=5&id=x
C15_Witness ==
    /\ call.fn = "encode_query_parameter" /\ call.done
    /\ call.style = None /\ call.explode = None
    /\ call.value = PyList(<<PyInt("5"), PyStr(<<"x">>)>>)
    /\ call.result = Ok(<<"id", "=", "5", "&", "id", "=", "x">>)

\* the error cases of the query encoder, as the documentation lists them
QueryErrorCase(v, style, explode) ==
    \/ style \in {"spaceDelimited", "pipeDelimited"} /\ v.t # "list"
    \/ style = "deepObject" /\ (v.t # "dict" \/ ~explode)
    \/ style \notin QueryStyles

(* C16: encode_query_parameter raises exactly when the style is            *)
(* spaceDelimited or pipeDelimited and the value is not an array, or the   *)
(* style is deepObject and the value is not an object or explode is false, *)
(* or the style is none of the four names; form never raises and           *)
(* deepObject with explode unspecified accepts an object.                  *)
C16_QueryErrorsExactly ==
    (call.fn = "encode_query_parameter" /\ call.done) =>
        /\ ~call.result.ok <=>
              QueryErrorCase(call.value, StyleName("form"), QueryExplode)
        /\ ~call.result.ok => call.result.err = "ValueError"

\* deepObject, explode unspecified, an object value: accepted
C16_Witness ==
    /\ call.fn = "encode_query_parameter" /\ call.done
    /\ call.style = PyStr(<<"deepObject">>) /\ call.explode = None
    /\ call.value = PyDict(<< <<"r", PyInt("5")>> >>)
    /\ call.result = Ok(<<"id", "[", "r", "]", "=", "5">>)

\* an error case: pipeDelimited with an object value
C16_WitnessRaise ==
    /\ call.fn = "encode_query_parameter" /\ call.done
    /\ call.style = PyStr(<<"pipeDelimited">>)
    /\ call.value.t = "dict"
    /\ call.result = Raise("ValueError")

\* the values the query encoder emits: encode_value of the primitive, of
\* each array element, of each object value
EmittedValues == Range(EncodedItems(call.value))

(* C17: every value encode_query_parameter emits is percent-encoded: for   *)
(* every style, explode and value no emitted value holds a raw '&', '=',   *)
(* '+', space, '?', '#' or '/', so the only raw '&' and '=' of the output  *)
(* are the separators the encoder inserts.                                 *)
C17_QueryValuesEscaped ==
    (call.fn = "encode_query_parameter" /\ call.done /\ call.result.ok) =>
        /\ \A e \in EmittedValues :
              Range(e) \cap {"&", "=", "+", " ", "?", "#", "/"} = {}
        /\ Range(call.result.val) \cap {"+", " ", "?", "#", "/"} = {}

\* the same statement for the characters other than '/'
C17_EscapedExceptSlash ==
    (call.fn = "encode_query_parameter" /\ call.done /\ call.result.ok) =>
        /\ \A e \in EmittedValues :
              Range(e) \cap {"&", "=", "+", " ", "?", "#"} = {}
        /\ Range(call.result.val) \cap {"+", " ", "?", "#"} = {}

(* C18: format_query joins only the non-empty encoded fragments with '&':  *)
(* the result has no leading or trailing '&' and no empty segment, even    *)
(* when a parameter encodes to the empty string; for empty params the      *)
(* result is the empty string.                                             *)
C18_NoEmptySegments ==
    (call.fn = "format_query" /\ call.done /\ call.result.ok) =>
        /\ call.params = <<>> => call.result.val = <<>>
        /\ call.result.val # <<>> =>
              /\ Head(call.result.val) # "&"
              /\ call.result.val[Len(call.result.val)] # "&"
        /\ \A i \in 1..(Len(call.result.val) - 1) :
              ~(call.result.val[i] = "&" /\ call.result.val[i + 1] = "&")

\* the same statement when no parameter encodes to the empty string
C18_HoldsWithoutEmptyFragments ==
    (call.fn = "format_query" /\ call.done /\ call.result.ok
        /\ \A i \in 1..Len(call.params) :
              call.params[i][2] \notin {PyList(<<>>), PyDict(<<>>)}) =>
        /\ call.params = <<>> => call.result.val = <<>>
        /\ call.result.val # <<>> =>
              /\ Head(call.result.val) # "&"
              /\ call.result.val[Len(call.result.val)] # "&"
        /\ \A i \in 1..(Len(call.result.val) - 1) :
              ~(call.result.val[i] = "&" /\ call.result.val[i + 1] = "&")

\* segment.split(","): the pieces between the commas; one piece, the whole
\* text, when there is no comma
FirstComma(toks) == CHOOSE i \in 1..Len(toks) :
                        toks[i] = "," /\ \A j \in 1..(i - 1) : toks[j] # ","
RECURSIVE SplitOnComma(_)
SplitOnComma(toks) ==
    IF "," \notin Range(toks) THEN <<toks>>
    ELSE <<SubSeq(toks, 1, FirstComma(toks) - 1)>>
            \o SplitOnComma(SubSeq(toks, FirstComma(toks) + 1, Len(toks)))

\* an array encoded under style simple with explode false
SimpleArrayCall ==
    /\ call.fn = "encode_path_parameter" /\ call.done
    /\ call.value.t = "list"
    /\ StyleName("simple") = "simple"
    /\ ~PathExplode

\* the array's elements in stringified form
Stringified(v) == [i \in 1..Len(v.items) |-> to_str(v.items[i])]

(* C19: for every array value, encoding it under style simple with         *)
(* explode=false and splitting the path segment on commas yields exactly   *)
(* the array's elements in stringified form, in order and in number.       *)
C19_SimpleRoundTrip ==
    SimpleArrayCall =>
        /\ call.result.ok
        /\ SplitOnComma(call.result.val) = Stringified(call.value)

(* C19, amended: the round trip holds for every non-empty array none of    *)
(* whose elements holds a comma in its stringified form.                   *)
C19_SimpleRoundTripCommaFree ==
    (SimpleArrayCall
        /\ call.value.items # <<>>
        /\ \A i \in 1..Len(call.value.items) :
              "," \notin Range(to_str(call.value.items[i]))) =>
        /\ call.result.ok
        /\ SplitOnComma(call.result.val) = Stringified(call.value)

\* an array of an empty string and a text: ",x"
C19_Witness ==
    /\ SimpleArrayCall
    /\ call.value = PyList(<<PyStr(<<>>), PyStr(<<"x">>)>>)
    /\ SplitOnComma(call.result.val) = << <<>>, <<"x">> >>

----------------------------------------------------------------------------
(* Validation failures                                                     *)

\* the last call was a validation call that the validator rejected
Rejected == ret.kind = "raise" /\ ret.err = "ValidationError"

\* a validation call has completed
ValidationDone == ret.kind \in {"raise", "RequestModel"}

\* every validation call's outcome is decided by its own input: it is
\* rejected, with no RequestModel, exactly when the input violates the
\* composed schema, whatever calls came before
OutcomeByInput ==
    ValidationDone =>
        (Rejected <=> ~Valid(BuildSchema(op, Sequential), ret.obj))

\* a rejected call leaves a populated cache as it was, and leaves the cache
\* holding the schema and map a schema access computes
RejectionKeepsCache ==
    (ret'.kind = "raise" /\ ret'.err = "ValidationError") =>
        /\ (self_schema # None) =>
              /\ self_schema' = self_schema
              /\ self_key_to_loc' = self_key_to_loc
        /\ self_schema' = BuildSchema(op, Sequential)
        /\ self_key_to_loc' = Sequential.key_to_loc

(* C20: when the schema validator rejects the input, the validator's       *)
(* error reaches the caller: no RequestModel is returned, the error is not *)
(* replaced, the cached schema and key-location map are unchanged by the   *)
(* failed call, and a later valid input is still accepted.                 *)
C20_ValidationFailureSurfaced ==
    /\ []OutcomeByInput
    /\ [][RejectionKeepsCache]_vars

\* an input without the required path parameter is rejected by a descriptor
\* whose schema is cached
C20_Witness ==
    /\ Rejected
    /\ ret.obj = PyDict(<<>>)
    /\ self_schema # None /\ self_key_to_loc # <<>>
    /\ self_validator # None

----------------------------------------------------------------------------
(* Composition: skipped locations, the required list, key order            *)

\* a location the composition has to skip: no meta, or a fragment without
\* a properties entry
WithoutProperties(o, loc) ==
    \/ metas(o)[loc] = None
    \/ "properties" \notin DOMAIN metas(o)[loc].schema_

ComposedRequired == SchemaRequired(self_schema)

(* C21: a location with no meta, or whose fragment has no properties, adds *)
(* nothing to the composed schema: no flattened key mapped to it, not its  *)
(* reserved key, and no entry of the required list; for all five           *)
(* locations, the body included.                                           *)
C21_LocationWithoutPropertiesSkipped ==
    Composed =>
        \A loc \in ReservedKeys :
            WithoutProperties(op, loc) =>
                /\ ~IsNested(loc)
                /\ \A k \in KeySet(self_key_to_loc) : ~MapsTo(k, loc)
                /\ loc \notin Range(ComposedRequired)

\* the same for the four non-body locations only
C21_NonBodyWithoutPropertiesSkipped ==
    Composed =>
        \A loc \in NonBody :
            WithoutProperties(op, loc) =>
                /\ ~IsNested(loc)
                /\ \A k \in KeySet(self_key_to_loc) : ~MapsTo(k, loc)
                /\ loc \notin Range(ComposedRequired)

----------------------------------------------------------------------------
(* Operations whose fragments carry required lists, with either value of   *)
(* body_required                                                           *)

RequiredKeys == {"a", "b"}

\* the required lists of a fragment with properties ks: lists over its own
\* keys, and one list naming a key the fragment does not declare
RequiredLists(ks) ==
    {<<>>, <<"z">>, <<ks[1]>>, ks}

RequiredMetas(loc, n) ==
    {None}
    \cup UNION {{Meta(loc, Fragment(loc, ks, req), <<>>) :
                    req \in RequiredLists(ks)} :
                ks \in DistinctSeqs(RequiredKeys, Min(n, MaxKeys))}

RequiredBodies ==
    {None, Meta("requestBody", NoPropsFragment, <<>>),
     Meta("requestBody", Fragment("requestBody", <<"a">>, <<"a">>), <<>>)}

\* at most MaxProps - 1 parameters over the four non-body locations
IsRequiredOp(o) ==
    \E pm \in RequiredMetas("requestPath", MaxProps - 1) :
    \E qm \in RequiredMetas("requestQuery", MaxProps - 1 - NProps(pm)) :
    \E hm \in RequiredMetas("requestHeader",
                            MaxProps - 1 - NProps(pm) - NProps(qm)) :
    \E cm \in RequiredMetas("requestCookie",
                            MaxProps - 1 - NProps(pm) - NProps(qm) - NProps(hm)) :
    \E bm \in RequiredBodies, breq \in BOOLEAN :
        o = Operation(<<"/", "u">>, pm, qm, hm, cm, bm, breq)

\* input objects without and with requestBody
RequiredObjects ==
    {PyDict(<<>>),
     PyDict(<< <<"a", PyInt("1")>>, <<"b", PyInt("1")>> >>),
     PyDict(<< <<"requestBody", PyDict(<< <<"a", PyInt("2")>> >>)>> >>)}

InitRequired == IsRequiredOp(op) /\ Fresh
NextRequired ==
    \/ schema
    \/ \E obj \in RequiredObjects : validate_python(obj)
SpecRequired == InitRequired /\ [][NextRequired]_vars

\* what a location adds to the composed required list, given the outcome
\* the composed schema shows for it
Contribution(o, loc) ==
    IF ~MetaPresent(metas(o)[loc]) THEN <<>>
    ELSE IF IsNested(loc) THEN <<loc>>
    ELSE SchemaRequired(metas(o)[loc].schema_)

RequiredWithinProperties(o) ==
    \A loc \in NonBody \cap Declared(o) :
        Range(SchemaRequired(metas(o)[loc].schema_)) \subseteq DeclaredKeys(o, loc)

NoDuplicates(s) == \A i, j \in 1..Len(s) : i # j => s[i] # s[j]

(* C22: the composed required list follows the outcome of each location:   *)
(* a flattened non-body location contributes exactly its fragment's        *)
(* required list, a nested one its reserved key once and none of its own   *)
(* keys; so when every fragment's required list lies within its own        *)
(* properties, every composed required entry is a key of the composed      *)
(* properties and none occurs twice.                                       *)
C22_RequiredFollowsOutcome ==
    Composed =>
        /\ ComposedRequired =
              Contribution(op, "requestPath") \o Contribution(op, "requestQuery")
                  \o Contribution(op, "requestHeader")
                  \o Contribution(op, "requestCookie")
                  \o Contribution(op, "requestBody")
        /\ RequiredWithinProperties(op) =>
              /\ Range(ComposedRequired) \subseteq KeySet(TopProps)
              /\ NoDuplicates(ComposedRequired)

\* a flattened location with a required key next to a nested location whose
\* fragment has a required list of its own
C22_Witness ==
    /\ Composed
    /\ RequiredWithinProperties(op)
    /\ \E loc \in NonBody \cap Declared(op) :
          ~IsNested(loc) /\ SchemaRequired(metas(op)[loc].schema_) # <<>>
    /\ \E loc \in NonBody :
          IsNested(loc) /\ SchemaRequired(metas(op)[loc].schema_) # <<>>

\* a required entry outside the fragment's properties reaches the composed
\* required list without being a composed property
C22_WitnessOutside ==
    /\ Composed
    /\ ~RequiredWithinProperties(op)
    /\ ~(Range(ComposedRequired) \subseteq KeySet(TopProps))

----------------------------------------------------------------------------
(* The body and body_required                                              *)

\* the same Operation with the other value of body_required
OtherBodyRequired(o) == [o EXCEPT !.body_required = ~o.body_required]

LacksRequestBody(obj) == obj.t = "dict" /\ ~DictHas(obj.pairs, "requestBody")

(* C23: whenever the body location contributes to the composed schema,     *)
(* requestBody is in the composed required list whatever body_required     *)
(* is: the composed schema is the one the Operation with the other value   *)
(* of body_required gets, and an input without requestBody is rejected by  *)
(* validation.                                                             *)
C23_BodyRequiredUnconditionally ==
    (Composed /\ MetaPresent(op.body_meta)) =>
        /\ "requestBody" \in Range(ComposedRequired)
        /\ \E ord \in NestedOrders(OtherBodyRequired(op)) :
              self_schema = BuildSchema(OtherBodyRequired(op),
                                        analyze_metas(OtherBodyRequired(op), ord))
        /\ (ValidationDone /\ LacksRequestBody(ret.obj)) => Rejected

\* an Operation with body_required = false rejects an input that satisfies
\* every other requirement but has no requestBody
C23_Witness ==
    /\ MetaPresent(op.body_meta) /\ ~op.body_required
    /\ Rejected /\ LacksRequestBody(ret.obj)
    /\ Range(ComposedRequired) \ {"requestBody"} \subseteq KeySet(ret.obj.pairs)
    /\ Range(ComposedRequired) \ {"requestBody"} # {}

\* with requestBody the same Operation accepts the input
C23_WitnessAccepted ==
    /\ MetaPresent(op.body_meta) /\ ~op.body_required
    /\ ret.kind = "RequestModel"

----------------------------------------------------------------------------
(* registry/python.py: Registry.register                                   *)
(* A registrable object is its identity (ref), its __name__ and the alias  *)
(* of the FieldInfo of an Annotated type ("" when there is none).          *)
(* The registry is held in call.descriptor_map.                            *)

RegObject(ref, name, alias) == [ref |-> ref, name |-> name, alias |-> alias]

\* two functions named f, a function g, an Annotated type whose field alias
\* is f, an Annotated type without alias, and a class named Annotated
RegObjects ==
    {RegObject(1, "f", ""), RegObject(2, "f", ""), RegObject(3, "g", ""),
     RegObject(4, "Annotated", "f"), RegObject(5, "Annotated", ""),
     RegObject(6, "Annotated", "")}

\* TypeDescriptor.__init__ (descriptor/python.py lines 35-45): the id is the
\* field alias of an Annotated type, else __name__
TypeDescriptor(type) ==
    [id |-> IF type.alias # "" THEN type.alias ELSE type.name,
     ref |-> type.ref]

InitRegistry ==
    /\ op = None
    /\ FreshDescriptor
    /\ call = [fn |-> "register", descriptor_map |-> <<>>, arg |-> RegObject(0, "", ""),
               result |-> NoRet]

\* Registry.register (lines 41-48)
register(type) ==
    /\ call.fn = "register"
    /\ LET id == type.name
           map == call.descriptor_map
       IN IF DictHas(map, id) /\ DictGet(map, id).ref # type.ref
          THEN call' = [call EXCEPT !.arg = type,
                                    !.result = [kind |-> "raise",
                                                err |-> "ValueError"]]
          ELSE LET descriptor == TypeDescriptor(type)
               IN call' = [call EXCEPT
                              !.arg = type,
                              !.descriptor_map = DictSet(@, descriptor.id, descriptor),
                              !.result = [kind |-> "return", val |-> type]]
    /\ UNCHANGED <<op, self_key_to_loc, self_schema, self_validator,
                   analyze_calls, first_schema, ret, pc, local>>

NextRegistry == \E type \in RegObjects : register(type)
SpecRegistry == InitRegistry /\ [][NextRegistry]_vars

\* BaseRegistry.__contains__
Contains(map, id) == DictHas(map, id)

\* the object is wrapped by a descriptor of the map: it has been registered
\* and not displaced since
Registered(map, type) ==
    \E id \in KeySet(map) : DictGet(map, id).ref = type.ref

\* a name clash: the object's __name__ is the id of a descriptor wrapping a
\* different object
Clashes(map, type) ==
    Contains(map, type.name) /\ DictGet(map, type.name).ref # type.ref

RegisterRaised == call'.result = [kind |-> "raise", err |-> "ValueError"]

\* one register call behaves as the contract says, for the objects in S
RegisterContract(S) ==
    (call.fn = "register" /\ call'.arg \in S) =>
        LET type == call'.arg
            map == call.descriptor_map
        IN /\ Clashes(map, type) =>
                 RegisterRaised /\ call'.descriptor_map = map
           /\ Registered(map, type) => ~RegisterRaised
           /\ ~RegisterRaised =>
                 /\ call'.result = [kind |-> "return", val |-> type]
                 /\ Contains(call'.descriptor_map, TypeDescriptor(type).id)

(* C24: in any sequence of register calls, registering an object whose     *)
(* __name__ is the id of a registered descriptor wrapping a different      *)
(* object raises ValueError and leaves the descriptor map unchanged;       *)
(* registering the very same object again does not raise; a successful     *)
(* register returns its argument and makes its id a member.                *)
C24_RegisterContract == [][RegisterContract(RegObjects)]_vars

\* the same for the objects whose descriptor id is their __name__
C24_RegisterContractUnaliased ==
    [][RegisterContract({type \in RegObjects : type.alias = ""})]_vars

----------------------------------------------------------------------------
(* Composition and the order in which a location lists its keys            *)

\* the permutations of a sequence
Perms(seq) ==
    {[i \in 1..Len(seq) |-> seq[p[i]]] : p \in SetOrders(1..Len(seq))}

\* the metas that declare the same fragment with its keys in any order
ReorderedMetas(meta) ==
    IF meta = None \/ "properties" \notin DOMAIN meta.schema_ THEN {meta}
    ELSE {[meta EXCEPT !.schema_.properties = q] : q \in Perms(meta.schema_.properties)}

\* the Operations that differ from o only in the order of the keys within
\* each location
Reordered(o) ==
    {[o EXCEPT !.path_meta = pm, !.query_meta = qm, !.header_meta = hm,
               !.cookie_meta = cm, !.body_meta = bm] :
        pm \in ReorderedMetas(o.path_meta), qm \in ReorderedMetas(o.query_meta),
        hm \in ReorderedMetas(o.header_meta), cm \in ReorderedMetas(o.cookie_meta),
        bm \in ReorderedMetas(o.body_meta)}

\* what the claim compares: the top-level keys, the nested locations and
\* the key-location map of a composition
Shape(st) ==
    [keys |-> KeySet(st.properties),
     nested |-> ReservedKeys \cap KeySet(st.properties),
     map |-> Range(st.key_to_loc)]

(* C25: composition depends only on which keys each location declares,     *)
(* not on the order in which a location lists them: every Operation that   *)
(* lists the same keys in another order composes to the same top-level     *)
(* keys, the same nested locations and the same key-location map.          *)
C25_KeyOrderIrrelevant ==
    Composed =>
        \A o \in Reordered(op) : \A ord \in NestedOrders(o) :
            Shape(analyze_metas(o, ord)) =
                [keys |-> KeySet(TopProps),
                 nested |-> ReservedKeys \cap KeySet(TopProps),
                 map |-> Range(self_key_to_loc)]

\* a location nested for a key it shares with an earlier one had flattened
\* another key before: a later location declaring that key is nested too
KeyOrderMatters(o) ==
    \E loc \in NonBody :
        /\ IsNested(loc)
        /\ FlattenedInFirstPass(o, loc) # {}
        /\ \E later \in NonBody :
              /\ Rank(later) > Rank(loc)
              /\ MetaPresent(metas(o)[later])
              /\ DeclaredKeys(o, later) \cap FlattenedInFirstPass(o, loc) # {}

\* without such a location the order of the keys makes no difference
C25_KeyOrderIrrelevantUnlessClaimed ==
    (Composed /\ \A o \in Reordered(op) : ~KeyOrderMatters(o)) =>
        \A o \in Reordered(op) : \A ord \in NestedOrders(o) :
            Shape(analyze_metas(o, ord)) =
                [keys |-> KeySet(TopProps),
                 nested |-> ReservedKeys \cap KeySet(TopProps),
                 map |-> Range(self_key_to_loc)]

----------------------------------------------------------------------------
(* Request components and the keys the composed schema declares            *)

\* item i of the input supplies key k for loc through a key the composed
\* schema declares for loc: a flattened key of loc, or the reserved key of
\* loc when the composed schema contains it
DeclaredWrite(i, k, loc) ==
    \/ Input[i][1] = k /\ k \notin ReservedKeys /\ MapsTo(k, loc)
    \/ Input[i][1] = loc /\ IsNested(loc) /\ DictHas(Input[i][2].pairs, k)

FromDeclaredKeys(component, loc) ==
    \A p \in component :
        \E i \in 1..Len(Input) :
            DeclaredWrite(i, p[1], loc) /\ WrittenValue(i, p[1]) = p[2]

\* the input names the reserved key of a location the composed schema does
\* not hold under that key
UndeclaredReserved ==
    {loc \in ReservedKeys \cap KeySet(Input) : ~IsNested(loc)}

(* C26: every request component is filled only from keys the composed      *)
(* schema declares for its location: its flattened keys, or its reserved   *)
(* key when the composed schema contains that key; the reserved key of a   *)
(* flattened location or of one without meta contributes nothing.          *)
C26_OnlyDeclaredKeysContribute ==
    Built =>
        /\ FromDeclaredKeys(Component(ret.val.queries), "requestQuery")
        /\ FromDeclaredKeys(Component(ret.val.headers), "requestHeader")
        /\ FromDeclaredKeys(Component(ret.val.cookies), "requestCookie")
        /\ FromDeclaredKeys(Component(ret.val.body), "requestBody")
        /\ ret.val.path # PyStr(op.path) =>
              \E i \in 1..Len(Input), k \in AllInputKeys :
                  DeclaredWrite(i, k, "requestPath")

\* the same for inputs whose reserved keys all belong to the composed schema
C26_OnlyDeclaredKeysWhenReservedDeclared ==
    (Built /\ UndeclaredReserved = {}) =>
        /\ FromDeclaredKeys(Component(ret.val.queries), "requestQuery")
        /\ FromDeclaredKeys(Component(ret.val.headers), "requestHeader")
        /\ FromDeclaredKeys(Component(ret.val.cookies), "requestCookie")
        /\ FromDeclaredKeys(Component(ret.val.body), "requestBody")
        /\ ret.val.path # PyStr(op.path) =>
              \E i \in 1..Len(Input), k \in AllInputKeys :
                  DeclaredWrite(i, k, "requestPath")

----------------------------------------------------------------------------
(* The same values, flattened and nested                                   *)

WithMeta(o, loc, meta) ==
    CASE loc = "requestPath" -> [o EXCEPT !.path_meta = meta]
      [] loc = "requestQuery" -> [o EXCEPT !.query_meta = meta]
      [] loc = "requestHeader" -> [o EXCEPT !.header_meta = meta]
      [] loc = "requestCookie" -> [o EXCEPT !.cookie_meta = meta]
      [] loc = "requestBody" -> [o EXCEPT !.body_meta = meta]

\* the Operation o with loc nested: its fragment declares, after its own
\* parameters, one more named like a reserved key; encodings are the same
NestedVariant(o, loc) ==
    WithMeta(o, loc,
        [metas(o)[loc] EXCEPT
            !.schema_.properties = Append(@, <<loc, ParamSchema(loc, loc)>>)])

\* the items of the input that are flattened keys of loc
FlatItems(loc) ==
    SelectSeq(Input, LAMBDA p : p[1] \notin ReservedKeys /\ MapsTo(p[1], loc))

\* the input with those items moved under the reserved key of loc
NestedInput(loc) ==
    PyDict(<< <<loc, PyDict(FlatItems(loc))>> >>
           \o SelectSeq(Input,
                        LAMBDA p : ~(p[1] \notin ReservedKeys /\ MapsTo(p[1], loc))))

\* _validate_python of a fresh descriptor of o
OutcomeFor(o, ord, input) ==
    Validated(o, analyze_metas(o, ord).key_to_loc, input,
              validate([schema |-> BuildSchema(o, analyze_metas(o, ord))], input))

SameRequest(r1, r2) ==
    /\ r1.kind = r2.kind
    /\ r1.kind = "raise" => r1.err = r2.err
    /\ r1.kind = "RequestModel" =>
          /\ r1.val.path = r2.val.path
          /\ r1.val.encoded_query = r2.val.encoded_query
          /\ r1.val.queries = r2.val.queries
          /\ r1.val.headers = r2.val.headers
          /\ r1.val.cookies = r2.val.cookies
          /\ r1.val.body = r2.val.body

\* the locations whose values the input supplies flattened
SuppliedFlat ==
    {loc \in NonBody :
        Flattened(loc) /\ FlatItems(loc) # <<>> /\ ~DictHas(Input, loc)}

(* C27: nesting does not change the request that is built: the values of   *)
(* a non-body location supplied under its reserved key, to the Operation   *)
(* with that location nested, give the same path, encoded_query, queries,  *)
(* headers and cookies (or the same error) as the same values supplied as  *)
(* flattened keys to the Operation with the location flattened.            *)
C27_NestingKeepsRequest ==
    ValidationDone =>
        \A loc \in SuppliedFlat :
            \A ord \in NestedOrders(NestedVariant(op, loc)) :
                /\ DictHas(analyze_metas(NestedVariant(op, loc), ord).properties,
                           loc)
                /\ SameRequest(ret, OutcomeFor(NestedVariant(op, loc), ord,
                                               NestedInput(loc)))

\* a path parameter with a configured label style, supplied flattened
C27_Witness ==
    /\ Built
    /\ "requestPath" \in SuppliedFlat
    /\ ret.val.path = PyStr(<<"/", "u", "/", ".", "1">>)

\* a query parameter supplied flattened and encoded
C27_WitnessQuery ==
    /\ Built
    /\ "requestQuery" \in SuppliedFlat
    /\ ret.val.encoded_query # None

----------------------------------------------------------------------------
(* The Operation is read-only                                              *)

\* the fragment the composed schema holds under a nested non-body location
\* is the fragment the Operation declares, retracted keys included
NestedFragmentsIntact ==
    Composed =>
        \A loc \in NonBody :
            IsNested(loc) => DictGet(TopProps, loc) = metas(op)[loc].schema_

OperationUnchanged == op' = op

(* C28: computing the schema and building request models never modify the  *)
(* Operation: after any sequence of schema accesses and validate calls     *)
(* its fragments (properties, required lists) and encodings are what they  *)
(* were at construction.                                                   *)
C28_OperationNeverModified ==
    /\ []NestedFragmentsIntact
    /\ [][OperationUnchanged]_vars

\* a schema access after a validate call on a descriptor with a nested
\* cookie location
C28_Witness ==
    /\ ret.kind = "schema"
    /\ self_validator # None
    /\ Composed
    /\ IsNested("requestCookie")
    /\ op.cookie_meta.schema_.properties # <<>>

----------------------------------------------------------------------------
(* The key-location map is computed before it is read                      *)

(* C29: on every path through a validate call the composed schema and the  *)
(* key-location map are populated before _build_request_model reads the    *)
(* map: whatever calls came before, a completed validate call leaves the   *)
(* schema, the map and the validator set, and a returned RequestModel is   *)
(* the one built from the computed map, never from an empty one.           *)
C29_MapComputedBeforeBuild ==
    ValidationDone =>
        /\ self_schema # None
        /\ self_validator # None
        /\ self_key_to_loc = Sequential.key_to_loc
        /\ Built =>
              ret.val = build_request_model(op, Sequential.key_to_loc, ret.obj).val

\* a flattened path key reaches the path of the RequestModel
C29_Witness ==
    /\ Built
    /\ analyze_calls = 1
    /\ MapsTo("a", "requestPath")
    /\ DictHas(Input, "a")
    /\ ret.val.path = PyStr(<<"/", "u", "/", "1">>)

----------------------------------------------------------------------------
(* registry/openapi.py: a parameter object becomes an encoding             *)
(* A parameter object is a dict with "name" and "in" and, optionally,      *)
(* "style", "explode" and "required".  One parameter is loaded and one     *)
(* value is rendered with the encodings of the loaded meta, and with an    *)
(* encodings map that has no entry for it.                                 *)

\* dict.pop(k, default), the value only
Pop(d, k, default) == IF DictHas(d, k) THEN DictGet(d, k) ELSE default

EmptyParamType == [props |-> <<>>, encoding |-> <<>>, required |-> <<>>]

ParamName(param) == DictGet(param, "name").s[1]
ParamIn(param) == DictGet(param, "in").s[1]

\* OpenAPIRegistry._process_parameter for a path or query parameter
process_parameter(param, param_type) ==
    LET popped == Pop(param, "schema", [type |-> "any"])
        described == IF DictHas(param, "description")
                     THEN popped @@ [description |-> DictGet(param, "description")]
                     ELSE popped
        name == ParamName(param)
    IN [props |-> DictSet(param_type.props, name, described),
        encoding |->
            DictSet(param_type.encoding, name,
                    [style |-> Pop(param, "style",
                                   IF ParamIn(param) = "path"
                                   THEN PyStr(<<"simple">>) ELSE PyStr(<<"form">>)),
                     explode |-> Pop(param, "explode", PyFalse)]),
        required |-> IF Truthy(Pop(param, "required", PyFalse))
                     THEN Append(param_type.required, name)
                     ELSE param_type.required]

\* OpenAPIRegistry._create_meta with include_encoding=True
create_meta(param_type) ==
    IF param_type.props = <<>> THEN None
    ELSE [schema_ |-> IF param_type.required # <<>>
                      THEN [type |-> "object", properties |-> param_type.props,
                            required |-> param_type.required]
                      ELSE [type |-> "object", properties |-> param_type.props],
          encodings |-> param_type.encoding]

\* the value rendered by the formatter of the parameter's location
Rendered(param, value, encodings) ==
    IF ParamIn(param) = "query"
    THEN format_query(<< <<ParamName(param), value>> >>, encodings)
    ELSE format_path(<<"/", "{", ParamName(param), "}">>,
                     << <<ParamName(param), value>> >>, encodings)

LoadNames == {"a", "b"}
LoadValues ==
    {PyInt("1"), PyList(<<>>), PyList(<<PyInt("3"), PyInt("4")>>),
     PyDict(<< <<"r", PyStr(<<"x">>)>> >>)}

\* the optional fields of a parameter object: each absent or present
OptionalField(k, vs) == {<<>>} \cup {<< <<k, v>> >> : v \in vs}

ParamObjects ==
    {<< <<"name", PyStr(<<n>>)>>, <<"in", PyStr(<<loc>>)>> >> \o st \o ex \o rq :
        n \in LoadNames, loc \in {"path", "query"},
        st \in OptionalField("style",
                  {PyStr(<<x>>) : x \in {"simple", "form", "pipeDelimited"}}),
        ex \in OptionalField("explode", {PyTrue, PyFalse}),
        rq \in OptionalField("required", {PyTrue})}

InitLoadParameter ==
    /\ op = None
    /\ FreshDescriptor
    /\ \E param \in ParamObjects, value \in LoadValues :
          call = [fn |-> "load_parameter", param |-> param, value |-> value,
                  done |-> FALSE, meta |-> None,
                  result |-> Raise("pending"), unconfigured |-> Raise("pending")]

apply_load_parameter ==
    /\ call.fn = "load_parameter"
    /\ ~call.done
    /\ LET meta == create_meta(process_parameter(call.param, EmptyParamType))
       IN call' = [call EXCEPT
                      !.done = TRUE,
                      !.meta = meta,
                      !.result = Rendered(call.param, call.value, meta.encodings),
                      !.unconfigured = Rendered(call.param, call.value, <<>>)]
    /\ UNCHANGED <<op, self_key_to_loc, self_schema, self_validator,
                   analyze_calls, first_schema, ret, pc, local>>

NextLoadParameter == apply_load_parameter
SpecLoadParameter == InitLoadParameter /\ [][NextLoadParameter]_vars

\* a loaded query parameter whose object has no explode field, and no style
\* other than form
QueryWithoutExplode ==
    /\ call.fn = "load_parameter" /\ call.done
    /\ ParamIn(call.param) = "query"
    /\ ~DictHas(call.param, "explode")
    /\ Pop(call.param, "style", PyStr(<<"form">>)) = PyStr(<<"form">>)

\* name=v1&name=v2 for an array, and in general form with explode=true
FormExploded(name, value) ==
    encode_query_parameter(name, value, PyStr(<<"form">>), PyTrue)

ArrayExploded(name, value, text) ==
    value = PyList(<<PyInt("3"), PyInt("4")>>) =>
        text = Ok(<<name, "=", "3", "&", name, "=", "4">>)

(* C30: a query parameter with no explode specified is encoded with style  *)
(* form and explode=true, both when the encodings map has no entry for it  *)
(* and when the operation was loaded from a parameter object without an    *)
(* explode field: the array [v1, v2] is rendered name=v1&name=v2.          *)
C30_QueryExplodeDefaultsTrue ==
    QueryWithoutExplode =>
        /\ call.unconfigured = FormExploded(ParamName(call.param), call.value)
        /\ ArrayExploded(ParamName(call.param), call.value, call.unconfigured)
        /\ call.result = FormExploded(ParamName(call.param), call.value)
        /\ ArrayExploded(ParamName(call.param), call.value, call.result)

\* the half of the statement about an encodings map without an entry
C30_UnconfiguredQueryExplodes ==
    QueryWithoutExplode =>
        /\ call.unconfigured = FormExploded(ParamName(call.param), call.value)
        /\ ArrayExploded(ParamName(call.param), call.value, call.unconfigured)

\* a loaded parameter is rendered as its encoding says, with explode=false
\* when the parameter object has no explode field
C30_LoadedExplodeDefaultsFalse ==
    (call.fn = "load_parameter" /\ call.done /\ ParamIn(call.param) = "query") =>
        call.result =
            encode_query_parameter(ParamName(call.param), call.value,
                                   Pop(call.param, "style", PyStr(<<"form">>)),
                                   Pop(call.param, "explode", PyFalse))
====
